---------------------------- MODULE Spec2Model ----------------------------
(***************************************************************************)
(* Model of the GCP inventory-to-Terraform generators:                     *)
(*   src/gcp_to_terraform.py      (class GCPToTerraform, per project)      *)
(*   src/gcp_org_to_terraform.py  (class GCPOrgToTerraform, per org)       *)
(*                                                                         *)
(* A Python string is a sequence of one-character strings.  A Python dict  *)
(* is a function whose domain is its set of keys.  A list is a sequence.   *)
(* Emitted HCL text is kept line-structured: a unit is a sequence of       *)
(* blocks, a block has a resource type, a label and a body of lines, and a *)
(* line keeps the exact characters of an interpolated string literal.      *)
(***************************************************************************)
EXTENDS Integers, Sequences, FiniteSets, TLC

VARIABLES
    san_script,   \* sanitizer harness: which script's sanitize_name is applied
    san_in,       \* sanitizer harness: the raw name
    san_out,      \* sanitizer harness: sanitize_name(san_in)
    san_again,    \* sanitizer harness: sanitize_name(san_out)
    san_pc,       \* sanitizer harness: number of applications done
    pc,           \* project script: position inside main()
    enabled_apis, \* project script: self.enabled_apis
    resources,    \* project script: self.resources
    files,        \* project script: the files written to output_dir
    prev_files,   \* project script: the files as written by the previous call
    runs,         \* project script: completed save_terraform_files calls
    raised,       \* project script: an exception escaped to the caller
    printed,      \* project script: the lines save_terraform_files has printed
    org_pc,       \* organization script: position inside main()
    org_resources,\* organization script: self.resources
    org_files,    \* organization script: the files written
    xa_pc,        \* extract_all: number of its tests passed by, 0 before detection
    xa_enabled_apis, \* extract_all: self.enabled_apis
    xa_calls,     \* extract_all: the extraction methods called so far, in order
    xa_detect_raised, \* extract_all: detect_enabled_apis ends in its except clause
    gen_last,     \* generator calls: the generate_* method called last
    gen_text      \* generator calls: what that call yielded

san_vars == <<san_script, san_in, san_out, san_again, san_pc>>
prj_vars == <<pc, enabled_apis, resources, files, prev_files, runs, raised, printed>>
org_vars == <<org_pc, org_resources, org_files>>
xa_vars == <<xa_pc, xa_enabled_apis, xa_calls, xa_detect_raised>>
gen_vars == <<gen_last, gen_text>>
vars == <<san_vars, prj_vars, org_vars, xa_vars, gen_vars>>

----------------------------------------------------------------------------
(* Bounds *)

\* longest raw name given to the sanitizer harness
MaxLen == 3
\* most records the collection commands return in one run, all kinds together
MaxRecords == 2
\* most calls of save_terraform_files on one instance
MaxRuns == 2

----------------------------------------------------------------------------
(* Python values *)

\* JSON null / Python None where a string was expected
None == <<"<None>">>

QUOTE == "\""
BACKSLASH == "\\"
NEWLINE == "\n"

\* the characters raw names are made of
Alphabet == {"a", "B", "7", "_", ".", "-", "/", " ", "@"}

RECURSIVE StrsUpTo(_)
StrsUpTo(n) ==
    IF n = 0 THEN {<<>>}
    ELSE LET shorter == StrsUpTo(n - 1)
         IN  shorter \cup {Append(s, c) : s \in {t \in shorter : Len(t) = n - 1}, c \in Alphabet}

\* dict.get(key, default)
Get(d, key, default) == IF key \in DOMAIN d THEN d[key] ELSE default

\* d[key] = value
Put(d, key, value) ==
    [k \in DOMAIN d \cup {key} |-> IF k = key THEN value ELSE d[k]]

\* s starts with the sequence p at position i
MatchAt(s, p, i) ==
    /\ i + Len(p) - 1 <= Len(s)
    /\ \A j \in 1..Len(p) : s[i + j - 1] = p[j]

\* str.replace(old, new): every non-overlapping occurrence, left to right
RECURSIVE ReplaceFrom(_, _, _, _)
ReplaceFrom(s, old, new, i) ==
    IF i > Len(s) THEN <<>>
    ELSE IF MatchAt(s, old, i)
         THEN new \o ReplaceFrom(s, old, new, i + Len(old))
         ELSE <<s[i]>> \o ReplaceFrom(s, old, new, i + 1)

Replace(s, old, new) == ReplaceFrom(s, old, new, 1)

\* position of the last occurrence of character c in s, 0 when absent
RECURSIVE LastIndexOf(_, _, _)
LastIndexOf(s, c, i) ==
    IF i = 0 THEN 0
    ELSE IF s[i] = c THEN i ELSE LastIndexOf(s, c, i - 1)

\* s.split(c)[-1]
LastSegment(s, c) ==
    LET k == LastIndexOf(s, c, Len(s))
    IN  SubSeq(s, k + 1, Len(s))

\* position of the first occurrence of character c in s, 0 when absent
RECURSIVE FirstIndexOf(_, _, _)
FirstIndexOf(s, c, i) ==
    IF i > Len(s) THEN 0
    ELSE IF s[i] = c THEN i ELSE FirstIndexOf(s, c, i + 1)

\* s.split(c)[0]
FirstSegment(s, c) ==
    LET k == FirstIndexOf(s, c, 1)
    IN  IF k = 0 THEN s ELSE SubSeq(s, 1, k - 1)

\* sub in s
Contains(s, sub) == \E i \in 1..(Len(s) + 1) : MatchAt(s, sub, i)

----------------------------------------------------------------------------
(* Identifier sanitizers *)

\* a sanitizer whose last replacement writes "-" instead of "_"
sanitize_name_typo(name) ==
    Replace(Replace(Replace(name, <<".">>, <<"_">>), <<"-">>, <<"_">>), <<"/">>, <<"-">>)

\* GCPToTerraform.sanitize_name
sanitize_name(name) ==
    Replace(Replace(Replace(name, <<".">>, <<"_">>), <<"-">>, <<"_">>), <<"/">>, <<"_">>)

\* GCPOrgToTerraform.sanitize_name
org_sanitize_name(name) ==
    Replace(Replace(Replace(Replace(name, <<".">>, <<"_">>), <<"-">>, <<"_">>),
                    <<"/">>, <<"_">>), <<" ">>, <<"_">>)

\* the sanitizer of the script under test
Sanitizer(script, name) ==
    IF script = "project" THEN sanitize_name(name) ELSE org_sanitize_name(name)

----------------------------------------------------------------------------
(* Sanitizer harness: sanitize_name applied to a raw name, then to its own  *)
(* result.                                                                  *)

\* the variables of the project script while it is not running
PrjIdle ==
    /\ pc = "idle"
    /\ enabled_apis = {}
    /\ resources = <<>>
    /\ files = <<>>
    /\ prev_files = <<>>
    /\ runs = 0
    /\ raised = FALSE
    /\ printed = {}

\* the variables of the organization script while it is not running
OrgIdle ==
    /\ org_pc = "idle"
    /\ org_resources = <<>>
    /\ org_files = <<>>

\* the variables of the walk through extract_all while it is not running
XaIdle ==
    /\ xa_pc = 0
    /\ xa_enabled_apis = {}
    /\ xa_calls = <<>>
    /\ xa_detect_raised = FALSE

\* the variables of the generator calls while none is made
GenIdle ==
    /\ gen_last = "none"
    /\ gen_text = <<>>

\* the variables of the sanitizer harness while it is not running
SanIdle ==
    /\ san_script = "none"
    /\ san_in = <<>>
    /\ san_out = <<>>
    /\ san_again = <<>>
    /\ san_pc = 0

SanInit ==
    /\ san_script \in {"project", "org"}
    /\ san_in \in StrsUpTo(MaxLen)
    /\ san_out = <<>>
    /\ san_again = <<>>
    /\ san_pc = 0
    /\ PrjIdle
    /\ OrgIdle
    /\ XaIdle
    /\ GenIdle

\* tf_name = self.sanitize_name(name)
SanitizeFirst ==
    /\ san_pc = 0
    /\ san_out' = Sanitizer(san_script, san_in)
    /\ san_pc' = 1
    /\ UNCHANGED <<san_script, san_in, san_again, prj_vars, org_vars, xa_vars, gen_vars>>

\* self.sanitize_name(tf_name)
SanitizeSecond ==
    /\ san_pc = 1
    /\ san_again' = Sanitizer(san_script, san_out)
    /\ san_pc' = 2
    /\ UNCHANGED <<san_script, san_in, san_out, prj_vars, org_vars, xa_vars, gen_vars>>

SanNext == SanitizeFirst \/ SanitizeSecond

SpecSanitize == SanInit /\ [][SanNext]_vars

----------------------------------------------------------------------------
(* Emitted text *)

\* a line that carries no symbolic reference
NoRef == [rtype |-> "", label |-> <<>>, field |-> ""]

Line(attr, form, text, ref, body) ==
    [attr |-> attr, form |-> form, text |-> text, ref |-> ref, body |-> body]

\* f'  attr = "{value}"\n' : the value is interpolated between two quotes as it is
StrLine(attr, value) == Line(attr, "str", <<QUOTE>> \o value \o <<QUOTE>>, NoRef, <<>>)

\* f'  attr = {token}\n' : an unquoted number or boolean
BareLine(attr, token) == Line(attr, "bare", token, NoRef, <<>>)

\* f'  attr = "{label}"\n' where the source writes a reference: a quoted literal
RefLineQuoted(attr, rtype, label, field) == StrLine(attr, label)

\* f'  attr = rtype.{label}.field\n' : an unquoted symbolic reference
RefLine(attr, rtype, label, field) ==
    Line(attr, "ref", <<>>, [rtype |-> rtype, label |-> label, field |-> field], <<>>)

\* '  attr {\n' ... '  }\n' : a nested block
NestedLine(attr, body) == Line(attr, "block", <<>>, NoRef, body)

\* '  attr = [\n' ... '  ]\n' : a list written one element per line
ListLine(attr, body) == Line(attr, "list", <<>>, NoRef, body)

\* json.dumps of one string: quotes, backslashes and newlines are escaped
JsonString(value) ==
    <<QUOTE>>
    \o Replace(Replace(Replace(value, <<BACKSLASH>>, <<BACKSLASH, BACKSLASH>>),
                       <<QUOTE>>, <<BACKSLASH, QUOTE>>),
               <<NEWLINE>>, <<BACKSLASH, "n">>)
    \o <<QUOTE>>

\* f'  attr = {json.dumps(values)}\n' : a list of strings on one line
JsonLine(attr, values) ==
    Line(attr, "json", <<>>, NoRef,
         [i \in 1..Len(values) |-> Line("", "str", JsonString(values[i]), NoRef, <<>>)])

\* f'resource "{rtype}" "{label}" {{\n' ... '}\n\n'
Block(rtype, label, body) == [rtype |-> rtype, label |-> label, body |-> body]

\* a line that is written only under a condition
Opt(cond, line) == IF cond THEN <<line>> ELSE <<>>

\* str(flag).lower()
BoolText(flag) == IF flag THEN <<"true">> ELSE <<"false">>

\* what a generate_* call yields: the text, or an exception
Returned(text) == [raised |-> FALSE, text |-> text]
Raised == [raised |-> TRUE, text |-> <<>>]

\* the concatenation of a sequence of sequences
RECURSIVE Flatten(_)
Flatten(ss) == IF ss = <<>> THEN <<>> ELSE Head(ss) \o Flatten(Tail(ss))

\* every symbolic reference written in a body, nested blocks and lists included
RECURSIVE RefsOf(_)
RefsOf(body) ==
    IF body = <<>> THEN {}
    ELSE LET l == Head(body)
         IN  (IF l.form = "ref" THEN {l.ref} ELSE {})
             \cup RefsOf(l.body) \cup RefsOf(Tail(body))

\* every quoted string literal written in a body, nested blocks and lists included
RECURSIVE LiteralsOf(_)
LiteralsOf(body) ==
    IF body = <<>> THEN {}
    ELSE LET l == Head(body)
         IN  (IF l.form = "str" THEN {l.text} ELSE {})
             \cup LiteralsOf(l.body) \cup LiteralsOf(Tail(body))

\* HCL scanning of a quoted literal from position i (just after the opening quote):
\* a backslash takes the next character with it, a raw newline is not allowed,
\* and the first unescaped quote closes the literal
RECURSIVE ClosesAt(_, _)
ClosesAt(text, i) ==
    IF i > Len(text) THEN 0
    ELSE IF text[i] = NEWLINE THEN 0
    ELSE IF text[i] = BACKSLASH THEN (IF i + 1 > Len(text) THEN 0 ELSE ClosesAt(text, i + 2))
    ELSE IF text[i] = QUOTE THEN i
    ELSE ClosesAt(text, i + 1)

\* the text is one string literal: it opens with a quote and closes at its last character
WellFormedLiteral(text) ==
    /\ Len(text) >= 2
    /\ text[1] = QUOTE
    /\ ClosesAt(text, 2) = Len(text)

----------------------------------------------------------------------------
(* Values the collection commands return *)

\* self.project_id
project_id == <<"p", "r", "j">>

\* a value with a quote, a backslash and a newline in it
Hostile == <<"a", QUOTE, "b", BACKSLASH, "c", NEWLINE, "d">>

\* a value that is a string where a mapping was expected
Scalar == [type |-> "str"]
\* a JSON object
Dict(fields) == [type |-> "dict", fields |-> fields]
\* a JSON array where a mapping was expected
List(items) == [type |-> "list", items |-> items]

\* value.get(key, default) on a value that may not be a mapping
GetRaises(value) == value.type # "dict"

\* `if value:` on a value that may not be a mapping
DynTruthy(value) ==
    CASE value.type = "dict" -> DOMAIN value.fields # {}
      [] value.type = "list" -> value.items # <<>>
      [] OTHER -> TRUE

\* the absent mapping: what .get(key) yields when the key is missing
NoDict == Dict(<<>>)

\* `if rec.get(key):` then f'  attr = "{rec[key]}"\n'
OptStr(rec, key, attr) ==
    Opt(Get(rec, key, <<>>) # <<>>, StrLine(attr, Get(rec, key, <<>>)))

\* f'  attr = {str(rec.get(key, False)).lower()}\n' with no `if` in front of it
OptFlagWritten(rec, key, attr) == <<BareLine(attr, BoolText(Get(rec, key, FALSE)))>>

\* `if rec.get(key):` then f'  attr = true\n'
OptFlag(rec, key, attr) == Opt(Get(rec, key, FALSE), BareLine(attr, <<"true">>))

\* `if rec.get(key):` then f'  attr = {rec[key]}\n' for a number
OptNum(rec, key, attr) ==
    Opt(Get(rec, key, 0) # 0, BareLine(attr, <<ToString(Get(rec, key, 0))>>))

\* `if rec.get(key):` then f'  attr = {json.dumps(rec[key])}\n'
OptJson(rec, key, attr) ==
    Opt(Get(rec, key, <<>>) # <<>>, JsonLine(attr, Get(rec, key, <<>>)))

\* network_url.split('/')[-1] if network_url else ''
NetworkName(rec) ==
    LET network_url == Get(rec, "network", <<>>)
    IN  IF network_url # <<>> THEN LastSegment(network_url, "/") ELSE <<>>

\* self.sanitize_name(name) on a name that is None raises AttributeError
NameRaises(rec) == Get(rec, "name", <<>>) = None

----------------------------------------------------------------------------
(* gcp_to_terraform.py: generators *)

\* one google_compute_network block of generate_network_tf
NetworkBlock(net) ==
    LET name == Get(net, "name", <<>>)
        tf_name == sanitize_name(name)
        routingConfig == Get(net, "routingConfig", NoDict)
    IN  Block("google_compute_network", tf_name,
            <<StrLine("name", name),
              StrLine("project", project_id),
              BareLine("auto_create_subnetworks",
                       BoolText(Get(net, "autoCreateSubnetworks", FALSE)))>>
            \o OptStr(net, "description", "description")
            \o Opt(DynTruthy(routingConfig),
                   StrLine("routing_mode",
                           Get(routingConfig.fields, "routingMode", <<"REGIONAL">>)))
            \o OptNum(net, "mtu", "mtu")
            \o OptFlag(net, "deleteDefaultRoutesOnCreate", "delete_default_routes_on_create")
            \o OptFlag(net, "enableUlaInternalIpv6", "enable_ula_internal_ipv6")
            \o OptStr(net, "internalIpv6Range", "internal_ipv6_range"))

\* net['routingConfig'].get(...) on a routingConfig that is no mapping raises
NetworkRaises(net) ==
    \/ NameRaises(net)
    \/ LET routingConfig == Get(net, "routingConfig", NoDict)
       IN  DynTruthy(routingConfig) /\ GetRaises(routingConfig)

\* one secondary_ip_range block of a subnet
SecondaryRangeLine(sec_range) ==
    NestedLine("secondary_ip_range",
        <<StrLine("range_name", Get(sec_range, "rangeName", <<>>)),
          StrLine("ip_cidr_range", Get(sec_range, "ipCidrRange", <<>>))>>)

\* the log_config block of a subnet
SubnetLogConfig(subnet) ==
    LET log_cfg == Get(subnet, "logConfig", NoDict)
    IN  IF DynTruthy(log_cfg) /\ Get(log_cfg.fields, "enable", FALSE)
        THEN <<NestedLine("log_config",
                 <<StrLine("aggregation_interval",
                           Get(log_cfg.fields, "aggregationInterval", <<"INTERVAL_5_SEC">>)),
                   BareLine("flow_sampling", Get(log_cfg.fields, "flowSampling", <<"0.5">>)),
                   StrLine("metadata",
                           Get(log_cfg.fields, "metadata", <<"INCLUDE_ALL_METADATA">>))>>
                 \o OptJson(log_cfg.fields, "metadataFields", "metadata_fields")
                 \o OptStr(log_cfg.fields, "filterExpr", "filter_expr"))>>
        ELSE <<>>

\* one google_compute_subnetwork block of generate_network_tf
SubnetBlock(subnet) ==
    LET name == Get(subnet, "name", <<>>)
        tf_name == sanitize_name(name)
        network_name == NetworkName(subnet)
        ranges == Get(subnet, "secondaryIpRanges", <<>>)
    IN  Block("google_compute_subnetwork", tf_name,
            <<StrLine("name", name),
              StrLine("project", project_id),
              StrLine("ip_cidr_range", Get(subnet, "ipCidrRange", <<>>)),
              StrLine("region", LastSegment(Get(subnet, "region", <<>>), "/")),
              RefLine("network", "google_compute_network", sanitize_name(network_name), "id")>>
            \o OptStr(subnet, "description", "description")
            \o OptStr(subnet, "purpose", "purpose")
            \o OptStr(subnet, "role", "role")
            \o OptFlag(subnet, "privateIpGoogleAccess", "private_ip_google_access")
            \o OptStr(subnet, "privateIpv6GoogleAccess", "private_ipv6_google_access")
            \o OptStr(subnet, "stackType", "stack_type")
            \o OptStr(subnet, "ipv6AccessType", "ipv6_access_type")
            \o OptStr(subnet, "ipv6CidrRange", "ipv6_cidr_range")
            \o [i \in 1..Len(ranges) |-> SecondaryRangeLine(ranges[i])]
            \o SubnetLogConfig(subnet))

\* subnet['logConfig'].get(...) on a logConfig that is no mapping raises
SubnetRaises(subnet) ==
    \/ NameRaises(subnet)
    \/ LET log_cfg == Get(subnet, "logConfig", NoDict)
       IN  DynTruthy(log_cfg) /\ GetRaises(log_cfg)

\* GCPToTerraform.generate_network_tf
generate_network_tf(res) ==
    LET networks == Get(res, "networks", <<>>)
        subnets == Get(res, "subnets", <<>>)
    IN  IF \/ \E r \in 1..Len(networks) : NetworkRaises(networks[r])
           \/ \E r \in 1..Len(subnets) : SubnetRaises(subnets[r])
        THEN Raised
        ELSE Returned([i \in 1..Len(networks) |-> NetworkBlock(networks[i])]
                      \o [i \in 1..Len(subnets) |-> SubnetBlock(subnets[i])])

\* an allow or deny block with its ports line written whatever the entry holds
RuleLineWithPorts(attr, rule) ==
    NestedLine(attr,
        <<StrLine("protocol", Get(rule, "IPProtocol", <<"tcp">>)),
          JsonLine("ports", Get(rule, "ports", <<>>))>>)

\* one allow or deny block of a firewall rule
RuleLine(attr, rule) ==
    NestedLine(attr,
        <<StrLine("protocol", Get(rule, "IPProtocol", <<"tcp">>))>>
        \o OptJson(rule, "ports", "ports"))

\* the log_config block of a firewall rule
FirewallLogConfig(fw) ==
    LET log_cfg == Get(fw, "logConfig", NoDict)
    IN  IF DynTruthy(log_cfg) /\ Get(log_cfg.fields, "enable", FALSE)
        THEN <<NestedLine("log_config",
                 <<StrLine("metadata",
                           Get(log_cfg.fields, "metadata", <<"INCLUDE_ALL_METADATA">>))>>)>>
        ELSE <<>>

\* one google_compute_firewall block of generate_firewall_tf
FirewallBlock(fw) ==
    LET name == Get(fw, "name", <<>>)
        tf_name == sanitize_name(name)
        network_name == NetworkName(fw)
        allowed == Get(fw, "allowed", <<>>)
        denied == Get(fw, "denied", <<>>)
    IN  Block("google_compute_firewall", tf_name,
            <<StrLine("name", name),
              StrLine("project", project_id),
              RefLine("network", "google_compute_network", sanitize_name(network_name), "id")>>
            \o OptStr(fw, "description", "description")
            \o OptStr(fw, "direction", "direction")
            \o OptNum(fw, "priority", "priority")
            \o OptFlag(fw, "disabled", "disabled")
            \o OptJson(fw, "sourceRanges", "source_ranges")
            \o OptJson(fw, "sourceTags", "source_tags")
            \o OptJson(fw, "sourceServiceAccounts", "source_service_accounts")
            \o OptJson(fw, "destinationRanges", "destination_ranges")
            \o OptJson(fw, "targetTags", "target_tags")
            \o OptJson(fw, "targetServiceAccounts", "target_service_accounts")
            \o [i \in 1..Len(allowed) |-> RuleLine("allow", allowed[i])]
            \o [i \in 1..Len(denied) |-> RuleLine("deny", denied[i])]
            \o FirewallLogConfig(fw))

\* fw['logConfig'].get(...) on a logConfig that is no mapping raises
FirewallRaises(fw) ==
    \/ NameRaises(fw)
    \/ LET log_cfg == Get(fw, "logConfig", NoDict)
       IN  DynTruthy(log_cfg) /\ GetRaises(log_cfg)

\* GCPToTerraform.generate_firewall_tf
generate_firewall_tf(res) ==
    LET firewalls == Get(res, "firewalls", <<>>)
    IN  IF (\E r \in 1..Len(firewalls) : FirewallRaises(firewalls[r]))
        THEN Raised
        ELSE Returned([i \in 1..Len(firewalls) |-> FirewallBlock(firewalls[i])])

\* GCPToTerraform.generate_gke_tf
generate_gke_tf(res) ==
    LET clusters == Get(res, "gke_clusters", <<>>)
    IN  IF (\E r \in 1..Len(clusters) : NameRaises(clusters[r]))
        THEN Raised
        ELSE Returned([i \in 1..Len(clusters) |->
                 Block("google_container_cluster",
                       sanitize_name(Get(clusters[i], "name", <<>>)),
                       <<StrLine("name", Get(clusters[i], "name", <<>>)),
                         StrLine("project", project_id),
                         StrLine("location", Get(clusters[i], "location", <<>>))>>)])

\* 'gserviceaccount.com' and 'iam.gserviceaccount.com', as the code spells them
GSA_DOMAIN == <<"gserviceaccount", ".", "com">>
IAM_GSA_DOMAIN == <<"iam", ".", "gserviceaccount", ".", "com">>

\* the service accounts generate_service_accounts_tf writes a block for
UserManaged(sa) ==
    LET email == Get(sa, "email", <<>>)
    IN  Contains(email, GSA_DOMAIN) /\ Contains(email, IAM_GSA_DOMAIN)

\* one google_service_account block
ServiceAccountBlock(sa) ==
    LET account_id == FirstSegment(Get(sa, "email", <<>>), "@")
        tf_name == sanitize_name(account_id)
    IN  Block("google_service_account", tf_name,
            <<StrLine("account_id", account_id),
              StrLine("project", project_id),
              StrLine("display_name", Get(sa, "displayName", account_id))>>)

\* GCPToTerraform.generate_service_accounts_tf
generate_service_accounts_tf(res) ==
    LET kept == SelectSeq(Get(res, "service_accounts", <<>>), UserManaged)
    IN  Returned([i \in 1..Len(kept) |-> ServiceAccountBlock(kept[i])])

\* the members list of an IAM binding
MembersLine(members) ==
    ListLine("members", [i \in 1..Len(members) |-> StrLine("", members[i])])

\* the condition block of an IAM binding
ConditionLines(binding) ==
    LET condition == Get(binding, "condition", <<>>)
    IN  IF DOMAIN condition # {}
        THEN <<NestedLine("condition",
                 <<StrLine("title", Get(condition, "title", <<>>)),
                   StrLine("description", Get(condition, "description", <<>>)),
                   StrLine("expression", Get(condition, "expression", <<>>))>>)>>
        ELSE <<>>

\* one google_project_iam_binding block; idx counts from 0
IamBindingBlock(binding, idx) ==
    LET role == Get(binding, "role", <<>>)
        role_name == Replace(Replace(Replace(role, <<"roles", "/">>, <<>>),
                                     <<".">>, <<"_">>), <<"/">>, <<"_">>)
        tf_name == role_name \o <<"_", ToString(idx)>>
    IN  IF role # <<>> /\ Get(binding, "members", <<>>) # <<>>
        THEN <<Block("google_project_iam_binding", tf_name,
                 <<StrLine("project", project_id), StrLine("role", role),
                   MembersLine(Get(binding, "members", <<>>))>>
                 \o ConditionLines(binding))>>
        ELSE <<>>

\* GCPToTerraform.generate_iam_policies_tf
generate_iam_policies_tf(res) ==
    LET policy == Get(res, "iam_policy", NoDict)
    IN  IF GetRaises(policy)
        THEN Raised
        ELSE LET bindings == Get(policy.fields, "bindings", <<>>)
             IN  Returned(Flatten([i \in 1..Len(bindings) |->
                                      IamBindingBlock(bindings[i], i - 1)]))

\* the node_config block of a node pool
NodeConfigLines(pool) ==
    LET config == Get(pool, "config", <<>>)
    IN  IF DOMAIN config # {}
        THEN <<NestedLine("node_config",
                 OptStr(config, "machineType", "machine_type")
                 \o OptNum(config, "diskSizeGb", "disk_size_gb")
                 \o OptStr(config, "diskType", "disk_type")
                 \o OptStr(config, "imageType", "image_type"))>>
        ELSE <<>>

\* one google_container_node_pool block
NodePoolBlock(pool) ==
    LET name == Get(pool, "name", <<>>)
        cluster_name == Get(pool, "cluster_name", <<>>)
        location == Get(pool, "cluster_location", <<>>)
        tf_name == sanitize_name(cluster_name \o <<"_">> \o name)
    IN  Block("google_container_node_pool", tf_name,
            <<StrLine("name", name),
              StrLine("cluster", cluster_name),
              StrLine("location", location),
              StrLine("project", project_id)>>
            \o OptNum(pool, "initialNodeCount", "initial_node_count")
            \o NodeConfigLines(pool))

\* GCPToTerraform.generate_gke_node_pools_tf
generate_gke_node_pools_tf(res) ==
    LET pools == Get(res, "gke_node_pools", <<>>)
    IN  Returned([i \in 1..Len(pools) |-> NodePoolBlock(pools[i])])

\* the nat_subnets list of a service attachment
NatSubnetsLines(attachment) ==
    LET natSubnets == Get(attachment, "natSubnets", <<>>)
    IN  Opt(natSubnets # <<>>,
            ListLine("nat_subnets",
                [i \in 1..Len(natSubnets) |->
                    RefLine("", "google_compute_subnetwork",
                            sanitize_name(LastSegment(natSubnets[i], "/")), "self_link")]))

\* one google_compute_service_attachment block
AttachmentBlock(attachment) ==
    LET name == Get(attachment, "name", <<>>)
        tf_name == sanitize_name(name)
        targetService == Get(attachment, "targetService", <<>>)
    IN  Block("google_compute_service_attachment", tf_name,
            <<StrLine("name", name), StrLine("project", project_id)>>
            \o Opt(Get(attachment, "region", <<>>) # <<>>,
                   StrLine("region", LastSegment(Get(attachment, "region", <<>>), "/")))
            \o OptStr(attachment, "description", "description")
            \o Opt(targetService # <<>>,
                   RefLine("target_service", "google_compute_forwarding_rule",
                           sanitize_name(LastSegment(targetService, "/")), "self_link"))
            \o OptStr(attachment, "connectionPreference", "connection_preference")
            \o NatSubnetsLines(attachment)
            \o Opt(Get(attachment, "enableProxyProtocol", FALSE),
                   BareLine("enable_proxy_protocol",
                            BoolText(Get(attachment, "enableProxyProtocol", FALSE)))))

\* one google_compute_forwarding_rule block of the consumer side
PscForwardingRuleBlock(fr) ==
    LET name == Get(fr, "name", <<>>)
        tf_name == sanitize_name(name)
    IN  Block("google_compute_forwarding_rule", tf_name \o <<"_", "psc">>,
            <<StrLine("name", name), StrLine("project", project_id)>>
            \o Opt(Get(fr, "region", <<>>) # <<>>,
                   StrLine("region", LastSegment(Get(fr, "region", <<>>), "/")))
            \o OptStr(fr, "target", "target")
            \o Opt(Get(fr, "network", <<>>) # <<>>,
                   RefLine("network", "google_compute_network",
                           sanitize_name(LastSegment(Get(fr, "network", <<>>), "/")),
                           "self_link")))

\* GCPToTerraform.generate_private_service_connect_tf
generate_private_service_connect_tf(res) ==
    LET attachments == Get(res, "psc_attachments", <<>>)
        rules == Get(res, "psc_forwarding_rules", <<>>)
    IN  IF \/ \E r \in 1..Len(attachments) : NameRaises(attachments[r])
           \/ \E r \in 1..Len(rules) : NameRaises(rules[r])
        THEN Raised
        ELSE Returned([i \in 1..Len(attachments) |-> AttachmentBlock(attachments[i])]
                      \o [i \in 1..Len(rules) |-> PscForwardingRuleBlock(rules[i])])

\* the google_service_account_iam_binding blocks of one service account
WorkloadIdentityBlocks(wi) ==
    LET sa_email == Get(wi, "service_account", <<>>)
        sa_tf_name == sanitize_name(FirstSegment(sa_email, "@"))
        bindings == Get(wi, "bindings", <<>>)
    IN  [idx \in 1..Len(bindings) |->
            LET role == Get(bindings[idx], "role", <<>>)
                role_tf == sanitize_name(role)
            IN  Block("google_service_account_iam_binding",
                      sa_tf_name \o <<"_">> \o role_tf \o <<"_", ToString(idx - 1)>>,
                      <<RefLine("service_account_id", "google_service_account",
                                sa_tf_name, "name"),
                        StrLine("role", role),
                        MembersLine(Get(bindings[idx], "members", <<>>))>>)]

\* GCPToTerraform.generate_workload_identity_tf
generate_workload_identity_tf(res) ==
    LET wis == Get(res, "workload_identity_bindings", <<>>)
    IN  Returned(Flatten([i \in 1..Len(wis) |-> WorkloadIdentityBlocks(wis[i])]))

\* the require_attestations_by list of the default admission rule
AttestationLines(default_rule) ==
    LET required == Get(default_rule, "requireAttestationsBy", <<>>)
    IN  Opt(required # <<>>,
            ListLine("require_attestations_by",
                [i \in 1..Len(required) |->
                    RefLine("", "google_binary_authorization_attestor",
                            sanitize_name(LastSegment(required[i], "/")), "name")]))

\* the google_binary_authorization_policy block, when there is a default rule
BinaryAuthzPolicyBlocks(policy) ==
    LET default_rule == Get(policy.fields, "defaultAdmissionRule", <<>>)
    IN  IF DynTruthy(policy) /\ DOMAIN default_rule # {}
        THEN <<Block("google_binary_authorization_policy", <<"policy">>,
                 <<StrLine("project", project_id),
                   NestedLine("default_admission_rule",
                       OptStr(default_rule, "evaluationMode", "evaluation_mode")
                       \o OptStr(default_rule, "enforcementMode", "enforcement_mode")
                       \o AttestationLines(default_rule))>>
                 \o OptStr(policy.fields, "globalPolicyEvaluationMode",
                           "global_policy_evaluation_mode"))>>
        ELSE <<>>

\* one google_binary_authorization_attestor block
AttestorBlock(attestor) ==
    LET name == LastSegment(Get(attestor, "name", <<>>), "/")
        tf_name == sanitize_name(name)
        note == Get(attestor, "userOwnedGrafeasNote", <<>>)
    IN  Block("google_binary_authorization_attestor", tf_name,
            <<StrLine("name", name), StrLine("project", project_id)>>
            \o OptStr(attestor, "description", "description")
            \o Opt(DOMAIN note # {},
                   NestedLine("attestation_authority_note",
                              OptStr(note, "noteReference", "note_reference"))))

\* GCPToTerraform.generate_binary_authorization_tf
generate_binary_authorization_tf(res) ==
    LET policy == Get(res, "binary_authz_policy", NoDict)
        attestors == Get(res, "binary_authz_attestors", <<>>)
    IN  Returned(BinaryAuthzPolicyBlocks(policy)
                 \o [i \in 1..Len(attestors) |-> AttestorBlock(attestors[i])])

\* filter.replace('"', '\\"'): only the quotes are escaped
EscapeQuotes(value) == Replace(value, <<QUOTE>>, <<BACKSLASH, QUOTE>>)

\* one exclusions block of a log sink
ExclusionLine(exclusion) ==
    NestedLine("exclusions",
        OptStr(exclusion, "name", "name")
        \o Opt(Get(exclusion, "filter", <<>>) # <<>>,
               StrLine("filter", EscapeQuotes(Get(exclusion, "filter", <<>>)))))

\* one google_logging_project_sink block
LogSinkBlock(sink) ==
    LET name == Get(sink, "name", <<>>)
        tf_name == sanitize_name(name)
        bq_opts == Get(sink, "bigqueryOptions", <<>>)
        exclusions == Get(sink, "exclusions", <<>>)
    IN  Block("google_logging_project_sink", tf_name,
            <<StrLine("name", name), StrLine("project", project_id)>>
            \o OptStr(sink, "destination", "destination")
            \o Opt(Get(sink, "filter", <<>>) # <<>>,
                   StrLine("filter", EscapeQuotes(Get(sink, "filter", <<>>))))
            \o Opt(Get(sink, "writerIdentity", <<>>) # <<>>,
                   BareLine("unique_writer_identity", <<"true">>))
            \o Opt(DOMAIN bq_opts # {},
                   NestedLine("bigquery_options",
                              OptFlag(bq_opts, "usePartitionedTables", "use_partitioned_tables")))
            \o [i \in 1..Len(exclusions) |-> ExclusionLine(exclusions[i])])

\* GCPToTerraform.generate_log_sinks_tf
generate_log_sinks_tf(res) ==
    LET sinks == Get(res, "log_sinks", <<>>)
    IN  IF (\E r \in 1..Len(sinks) : NameRaises(sinks[r]))
        THEN Raised
        ELSE Returned([i \in 1..Len(sinks) |-> LogSinkBlock(sinks[i])])

\* a comment line inside a block
CommentLine(text) == Line("#", "comment", <<text>>, NoRef, <<>>)

\* the resource generate_ssl_certificates_tf declares for a certificate: the branch
\* of `if cert_type == 'MANAGED'`
SslResourceType(cert) ==
    IF Get(cert, "type", <<"SELF_MANAGED">>) = <<"MANAGED">>
    THEN "google_compute_managed_ssl_certificate"
    ELSE "google_compute_ssl_certificate"

\* generate_ssl_certificates_tf: the block of one certificate
SslCertificateBlock(cert) ==
    LET name == Get(cert, "name", <<>>)
        tf_name == sanitize_name(name)
        domains == Get(Get(cert, "managed", <<>>), "domains", <<>>)
    IN  Block(SslResourceType(cert), tf_name,
            <<StrLine("name", name), StrLine("project", project_id)>>
            \o (IF SslResourceType(cert) = "google_compute_managed_ssl_certificate"
                THEN Opt(domains # <<>>,
                         NestedLine("managed", <<JsonLine("domains", domains)>>))
                ELSE <<CommentLine("Note: certificate e private_key devem ser fornecidos manualmente"),
                       CommentLine("certificate = file(\"path/to/cert.pem\")"),
                       CommentLine("private_key = file(\"path/to/key.pem\")")>>)
            \o OptStr(cert, "description", "description"))

\* GCPToTerraform.generate_ssl_certificates_tf
generate_ssl_certificates_tf(res) ==
    LET certs == Get(res, "ssl_certificates", <<>>)
    IN  IF (\E r \in 1..Len(certs) : NameRaises(certs[r]))
        THEN Raised
        ELSE Returned([i \in 1..Len(certs) |-> SslCertificateBlock(certs[i])])

\* f'  attr = "{value}"\n' as the characters it appends, indentation left out
Kv(attr, value) == <<attr, "=", QUOTE>> \o value \o <<QUOTE, NEWLINE>>

\* f'  attr = {token}\n' as the characters it appends
KvBare(attr, token) == <<attr, "=">> \o token \o <<NEWLINE>>

\* f'resource "{rtype}" "{tf_name}" {{\n' as the characters it appends
ResourceHead(rtype, tf_name) ==
    <<"resource", QUOTE, rtype, QUOTE, QUOTE>> \o tf_name \o <<QUOTE, "{", NEWLINE>>

\* generate_dataproc_tf with the '    }\n' after the disk_config block left out
generate_dataproc_tf_unclosed(res) ==
    LET Cluster(cluster) ==
            LET name == Get(cluster, "clusterName", <<>>)
                config == Get(cluster, "config", <<>>)
                master == Get(config, "masterConfig", <<>>)
            IN  ResourceHead("google_dataproc_cluster", sanitize_name(name))
                \o Kv("name", name)
                \o Kv("project", project_id)
                \o Kv("region", LastSegment(Get(cluster, "location", <<>>), "/"))
                \o (IF DOMAIN config # {} /\ DOMAIN master # {}
                    THEN <<NEWLINE, "cluster_config", "{", NEWLINE>>
                         \o <<"master_config", "{", NEWLINE>>
                         \o (IF Get(master, "numInstances", 0) # 0
                             THEN KvBare("num_instances", <<ToString(master["numInstances"])>>)
                             ELSE <<>>)
                         \o (IF Get(master, "machineType", <<>>) # <<>>
                             THEN Kv("machine_type", LastSegment(master["machineType"], "/"))
                             ELSE <<>>)
                         \o (IF Get(Get(master, "diskConfig", <<>>), "bootDiskSizeGb", 0) # 0
                             THEN <<"disk_config", "{", NEWLINE>>
                                  \o KvBare("boot_disk_size_gb",
                                            <<ToString(master["diskConfig"]["bootDiskSizeGb"])>>)
                                  \o <<"}", NEWLINE>>
                             ELSE <<>>)
                         \o <<"}", NEWLINE>>
                    ELSE <<>>)
                \o <<"}", NEWLINE, NEWLINE>>
        clusters == Get(res, "dataproc_clusters", <<>>)
    IN  Returned(<<"#", "Dataproc Clusters", NEWLINE, NEWLINE>>
                 \o Flatten([i \in 1..Len(clusters) |-> Cluster(clusters[i])]))

\* GCPToTerraform.generate_dataproc_tf: the characters of the text it returns
generate_dataproc_tf(res) ==
    LET Cluster(cluster) ==
            LET name == Get(cluster, "clusterName", <<>>)
                config == Get(cluster, "config", <<>>)
                master == Get(config, "masterConfig", <<>>)
            IN  ResourceHead("google_dataproc_cluster", sanitize_name(name))
                \o Kv("name", name)
                \o Kv("project", project_id)
                \o Kv("region", LastSegment(Get(cluster, "location", <<>>), "/"))
                \o (IF DOMAIN config # {} /\ DOMAIN master # {}
                    THEN <<NEWLINE, "cluster_config", "{", NEWLINE>>
                         \o <<"master_config", "{", NEWLINE>>
                         \o (IF Get(master, "numInstances", 0) # 0
                             THEN KvBare("num_instances", <<ToString(master["numInstances"])>>)
                             ELSE <<>>)
                         \o (IF Get(master, "machineType", <<>>) # <<>>
                             THEN Kv("machine_type", LastSegment(master["machineType"], "/"))
                             ELSE <<>>)
                         \o (IF Get(Get(master, "diskConfig", <<>>), "bootDiskSizeGb", 0) # 0
                             THEN <<"disk_config", "{", NEWLINE>>
                                  \o KvBare("boot_disk_size_gb",
                                            <<ToString(master["diskConfig"]["bootDiskSizeGb"])>>)
                                  \o <<"}", NEWLINE>>
                             ELSE <<>>)
                         \o <<"}", NEWLINE>>
                         \o <<"}", NEWLINE>>
                    ELSE <<>>)
                \o <<"}", NEWLINE, NEWLINE>>
        clusters == Get(res, "dataproc_clusters", <<>>)
    IN  Returned(<<"#", "Dataproc Clusters", NEWLINE, NEWLINE>>
                 \o Flatten([i \in 1..Len(clusters) |-> Cluster(clusters[i])]))

\* GCPToTerraform.generate_reservations_tf: the characters of the text it returns
generate_reservations_tf(res) ==
    LET Gpu(gpu) ==
            <<NEWLINE, "guest_accelerators", "{", NEWLINE>>
            \o (IF Get(gpu, "acceleratorType", <<>>) # <<>>
                THEN Kv("accelerator_type", gpu["acceleratorType"]) ELSE <<>>)
            \o (IF Get(gpu, "acceleratorCount", 0) # 0
                THEN KvBare("accelerator_count", <<ToString(gpu["acceleratorCount"])>>)
                ELSE <<>>)
            \o <<"}", NEWLINE>>
        Props(props) ==
            LET gpus == Get(props, "guestAccelerators", <<>>)
            IN  <<NEWLINE, "instance_properties", "{", NEWLINE>>
                \o (IF Get(props, "machineType", <<>>) # <<>>
                    THEN Kv("machine_type", props["machineType"]) ELSE <<>>)
                \o (IF Get(props, "minCpuPlatform", <<>>) # <<>>
                    THEN Kv("min_cpu_platform", props["minCpuPlatform"]) ELSE <<>>)
                \o Flatten([i \in 1..Len(gpus) |-> Gpu(gpus[i])])
                \o <<"}", NEWLINE>>
        Specific(spec) ==
            <<NEWLINE, "specific_reservation", "{", NEWLINE>>
            \o (IF Get(spec, "count", 0) # 0
                THEN KvBare("count", <<ToString(spec["count"])>>) ELSE <<>>)
            \o (IF DOMAIN Get(spec, "instanceProperties", <<>>) # {}
                THEN Props(spec["instanceProperties"]) ELSE <<>>)
            \o <<"}", NEWLINE>>
        Reservation(reservation) ==
            LET name == Get(reservation, "name", <<>>)
                commitment == LastSegment(Get(reservation, "commitment", <<>>), "/")
            IN  ResourceHead("google_compute_reservation", sanitize_name(name))
                \o Kv("name", name)
                \o Kv("project", project_id)
                \o (IF Get(reservation, "zone", <<>>) # <<>>
                    THEN Kv("zone", LastSegment(reservation["zone"], "/")) ELSE <<>>)
                \o (IF DOMAIN Get(reservation, "specificReservation", <<>>) # {}
                    THEN Specific(reservation["specificReservation"]) ELSE <<>>)
                \o (IF Get(reservation, "commitment", <<>>) # <<>>
                    THEN <<NEWLINE>>
                         \o KvBare("commitment",
                                   <<"google_compute_commitment", ".">>
                                   \o sanitize_name(commitment) \o <<".", "id">>)
                    ELSE <<>>)
                \o (IF Get(reservation, "specificReservationRequired", FALSE)
                    THEN KvBare("specific_reservation_required", <<"true">>) ELSE <<>>)
                \o <<"}", NEWLINE, NEWLINE>>
        reservations == Get(res, "reservations", <<>>)
    IN  Returned(<<"#", "Compute Reservations", NEWLINE, NEWLINE>>
                 \o Flatten([i \in 1..Len(reservations) |-> Reservation(reservations[i])]))

\* GCPToTerraform.generate_cloud_armor_tf: the characters of the text it returns
generate_cloud_armor_tf(res) ==
    LET JsonList(values) ==
            <<"[">>
            \o Flatten([i \in 1..Len(values) |->
                   (IF i > 1 THEN <<",", " ">> ELSE <<>>) \o JsonString(values[i])])
            \o <<"]">>
        Config(config) ==
            <<"config", "{", NEWLINE>>
            \o (IF Get(config, "srcIpRanges", <<>>) # <<>>
                THEN KvBare("src_ip_ranges", JsonList(config["srcIpRanges"])) ELSE <<>>)
            \o <<"}", NEWLINE>>
        Match(match) ==
            <<NEWLINE, "match", "{", NEWLINE>>
            \o (IF Get(match, "versionedExpr", <<>>) # <<>>
                THEN Kv("versioned_expr", match["versionedExpr"]) ELSE <<>>)
            \o (IF DOMAIN Get(match, "config", <<>>) # {}
                THEN Config(match["config"]) ELSE <<>>)
            \o <<"}", NEWLINE>>
        Rule(rule) ==
            <<NEWLINE, "rule", "{", NEWLINE>>
            \o Kv("action", Get(rule, "action", <<"allow">>))
            \o KvBare("priority", <<ToString(Get(rule, "priority", 1000))>>)
            \o (IF Get(rule, "description", <<>>) # <<>>
                THEN Kv("description", rule["description"]) ELSE <<>>)
            \o (IF DOMAIN Get(rule, "match", <<>>) # {}
                THEN Match(rule["match"]) ELSE <<>>)
            \o <<"}", NEWLINE>>
        Policy(policy) ==
            LET name == Get(policy, "name", <<>>)
                rules == Get(policy, "rules", <<>>)
            IN  ResourceHead("google_compute_security_policy", sanitize_name(name))
                \o Kv("name", name)
                \o Kv("project", project_id)
                \o (IF Get(policy, "description", <<>>) # <<>>
                    THEN Kv("description", policy["description"]) ELSE <<>>)
                \o Flatten([i \in 1..Len(rules) |-> Rule(rules[i])])
                \o <<"}", NEWLINE, NEWLINE>>
        policies == Get(res, "security_policies", <<>>)
    IN  Returned(<<"#", "Cloud Armor Security Policies", NEWLINE, NEWLINE>>
                 \o Flatten([i \in 1..Len(policies) |-> Policy(policies[i])]))

\* generate_routers_tf: the block of one router.  The statements that would write
\* the bgp block stand inside the comment of line 1382 and are never executed.
RouterBlock(router) ==
    LET name == Get(router, "name", <<>>)
    IN  Block("google_compute_router", sanitize_name(name),
            <<StrLine("name", name),
              StrLine("project", project_id),
              StrLine("region", LastSegment(Get(router, "region", <<>>), "/")),
              RefLine("network", "google_compute_network",
                      sanitize_name(NetworkName(router)), "id")>>
            \o OptStr(router, "description", "description"))

\* GCPToTerraform.generate_routers_tf
generate_routers_tf(res) ==
    LET routers == Get(res, "routers", <<>>)
    IN  IF (\E r \in 1..Len(routers) : NameRaises(routers[r]))
        THEN Raised
        ELSE Returned([i \in 1..Len(routers) |-> RouterBlock(routers[i])])

\* 'default-route-'
DEFAULT_ROUTE_PREFIX == <<"default", "-", "route", "-">>

\* generate_routes_tf: `if name.startswith('default-route-'): continue`
RouteWanted(route) == ~MatchAt(Get(route, "name", <<>>), DEFAULT_ROUTE_PREFIX, 1)

\* generate_routes_tf with `if` in the place of each `elif` of the next hop
RouteNextHopEach(route) ==
    Opt(Get(route, "nextHopGateway", <<>>) # <<>>,
        StrLine("next_hop_gateway", LastSegment(Get(route, "nextHopGateway", <<>>), "/")))
    \o OptStr(route, "nextHopIp", "next_hop_ip")
    \o OptStr(route, "nextHopInstance", "next_hop_instance")
    \o OptStr(route, "nextHopVpnTunnel", "next_hop_vpn_tunnel")
    \o OptStr(route, "nextHopIlb", "next_hop_ilb")

\* generate_routes_tf: the `if ... elif ...` chain of the next hop
RouteNextHop(route) ==
    IF Get(route, "nextHopGateway", <<>>) # <<>>
    THEN <<StrLine("next_hop_gateway", LastSegment(route["nextHopGateway"], "/"))>>
    ELSE IF Get(route, "nextHopIp", <<>>) # <<>>
    THEN <<StrLine("next_hop_ip", route["nextHopIp"])>>
    ELSE IF Get(route, "nextHopInstance", <<>>) # <<>>
    THEN <<StrLine("next_hop_instance", route["nextHopInstance"])>>
    ELSE IF Get(route, "nextHopVpnTunnel", <<>>) # <<>>
    THEN <<StrLine("next_hop_vpn_tunnel", route["nextHopVpnTunnel"])>>
    ELSE IF Get(route, "nextHopIlb", <<>>) # <<>>
    THEN <<StrLine("next_hop_ilb", route["nextHopIlb"])>>
    ELSE <<>>

\* generate_routes_tf: the block of one route
RouteBlock(route) ==
    LET name == Get(route, "name", <<>>)
    IN  Block("google_compute_route", sanitize_name(name),
            <<StrLine("name", name),
              StrLine("project", project_id),
              StrLine("dest_range", Get(route, "destRange", <<>>)),
              RefLine("network", "google_compute_network",
                      sanitize_name(NetworkName(route)), "id")>>
            \o OptStr(route, "description", "description")
            \o OptNum(route, "priority", "priority")
            \o OptJson(route, "tags", "tags")
            \o RouteNextHop(route))

\* GCPToTerraform.generate_routes_tf
generate_routes_tf(res) ==
    LET routes == Get(res, "routes", <<>>)
        written == SelectSeq(routes, RouteWanted)
    IN  IF (\E r \in 1..Len(routes) : NameRaises(routes[r]))
        THEN Raised
        ELSE Returned([i \in 1..Len(written) |-> RouteBlock(written[i])])

\* generate_vpn_tf: the block of one gateway
VpnGatewayBlock(gw) ==
    LET name == Get(gw, "name", <<>>)
    IN  Block("google_compute_ha_vpn_gateway", sanitize_name(name),
            <<StrLine("name", name),
              StrLine("project", project_id),
              StrLine("region", LastSegment(Get(gw, "region", <<>>), "/")),
              RefLine("network", "google_compute_network",
                      sanitize_name(NetworkName(gw)), "id")>>
            \o OptStr(gw, "description", "description"))

\* generate_vpn_tf writing the sharedSecret of the tunnel as it was collected
VpnTunnelBlockDisclosing(tunnel) ==
    LET name == Get(tunnel, "name", <<>>)
    IN  Block("google_compute_vpn_tunnel", sanitize_name(name),
            <<StrLine("name", name),
              StrLine("project", project_id),
              StrLine("region", LastSegment(Get(tunnel, "region", <<>>), "/"))>>
            \o OptStr(tunnel, "description", "description")
            \o OptStr(tunnel, "peerIp", "peer_ip")
            \o OptStr(tunnel, "sharedSecret", "shared_secret")
            \o OptNum(tunnel, "ikeVersion", "ike_version")
            \o <<CommentLine("Configuração adicional necessária")>>)

\* generate_vpn_tf: the block of one tunnel
VpnTunnelBlock(tunnel) ==
    LET name == Get(tunnel, "name", <<>>)
    IN  Block("google_compute_vpn_tunnel", sanitize_name(name),
            <<StrLine("name", name),
              StrLine("project", project_id),
              StrLine("region", LastSegment(Get(tunnel, "region", <<>>), "/"))>>
            \o OptStr(tunnel, "description", "description")
            \o OptStr(tunnel, "peerIp", "peer_ip")
            \o Opt(Get(tunnel, "sharedSecret", <<>>) # <<>>,
                   StrLine("shared_secret", <<"<REDACTED>">>))
            \o OptNum(tunnel, "ikeVersion", "ike_version")
            \o <<CommentLine("Configuração adicional necessária")>>)

\* GCPToTerraform.generate_vpn_tf
generate_vpn_tf(res) ==
    LET gateways == Get(res, "vpn_gateways", <<>>)
        tunnels == Get(res, "vpn_tunnels", <<>>)
    IN  IF \/ \E r \in 1..Len(gateways) : NameRaises(gateways[r])
           \/ \E r \in 1..Len(tunnels) : NameRaises(tunnels[r])
        THEN Raised
        ELSE Returned([i \in 1..Len(gateways) |-> VpnGatewayBlock(gateways[i])]
                      \o [i \in 1..Len(tunnels) |-> VpnTunnelBlock(tunnels[i])])

\* GCPToTerraform.generate_peering_tf
generate_peering_tf(res) ==
    LET PeeringBlock(peering_info) ==
            LET network == Get(peering_info, "network", <<>>)
                peering == peering_info.peering
                name == Get(peering, "name", <<>>)
            IN  Block("google_compute_network_peering",
                    sanitize_name(network \o <<"_">> \o name),
                    <<StrLine("name", name),
                      RefLine("network", "google_compute_network",
                              sanitize_name(network), "id"),
                      StrLine("peer_network", Get(peering, "network", <<>>))>>
                    \o Opt(Get(peering, "exportCustomRoutes", FALSE),
                           BareLine("export_custom_routes", <<"true">>))
                    \o Opt(Get(peering, "importCustomRoutes", FALSE),
                           BareLine("import_custom_routes", <<"true">>))
                    \o Opt(Get(peering, "exportSubnetRoutesWithPublicIp", FALSE),
                           BareLine("export_subnet_routes_with_public_ip", <<"true">>))
                    \o Opt(Get(peering, "importSubnetRoutesWithPublicIp", FALSE),
                           BareLine("import_subnet_routes_with_public_ip", <<"true">>)))
        peerings == Get(res, "peerings", <<>>)
    IN  IF (\E p \in 1..Len(peerings) : peerings[p].network = None)
        THEN Raised
        ELSE Returned([i \in 1..Len(peerings) |-> PeeringBlock(peerings[i])])

\* GCPToTerraform.generate_cloud_nat_tf
generate_cloud_nat_tf(res) ==
    LET Subnetwork(subnet) ==
            NestedLine("subnetwork",
                Opt(Get(subnet, "name", <<>>) # <<>>,
                    StrLine("name", LastSegment(Get(subnet, "name", <<>>), "/")))
                \o OptJson(subnet, "sourceIpRangesToNat", "source_ip_ranges_to_nat"))
        LogConfig(log_config) ==
            NestedLine("log_config",
                <<BareLine("enable", BoolText(Get(log_config, "enable", FALSE))),
                  StrLine("filter", Get(log_config, "filter", <<"ALL">>))>>)
        NatBlock(nat) ==
            LET name == Get(nat, "name", <<>>)
                router_name == Get(nat, "router_name", <<>>)
                subnetworks == Get(nat, "subnetworks", <<>>)
            IN  Block("google_compute_router_nat",
                    sanitize_name(router_name \o <<"_">> \o name),
                    <<StrLine("name", name),
                      RefLine("router", "google_compute_router",
                              sanitize_name(router_name), "name"),
                      StrLine("region", Get(nat, "region", <<>>)),
                      StrLine("project", project_id)>>
                    \o OptStr(nat, "natIpAllocateOption", "nat_ip_allocate_option")
                    \o OptStr(nat, "sourceSubnetworkIpRangesToNat",
                              "source_subnetwork_ip_ranges_to_nat")
                    \o [i \in 1..Len(subnetworks) |-> Subnetwork(subnetworks[i])]
                    \o OptNum(nat, "minPortsPerVm", "min_ports_per_vm")
                    \o Opt("logConfig" \in DOMAIN nat /\ DOMAIN Get(nat, "logConfig", <<>>) # {},
                           LogConfig(Get(nat, "logConfig", <<>>))))
        cloud_nats == Get(res, "cloud_nats", <<>>)
    IN  Returned([i \in 1..Len(cloud_nats) |-> NatBlock(cloud_nats[i])])

\* GCPToTerraform.generate_provider_tf
generate_provider_tf ==
    Returned(<<Block("terraform", <<>>, <<StrLine("required_version", <<">= 1.0">>)>>),
               Block("provider", <<"google">>,
                     <<StrLine("project", project_id),
                       StrLine("region", <<"us", "-", "central1">>)>>)>>)

\* GCPToTerraform.generate_variables_tf
generate_variables_tf ==
    Returned(<<Block("variable", <<"project_id">>, <<StrLine("default", project_id)>>),
               Block("variable", <<"region">>,
                     <<StrLine("default", <<"us", "-", "central1">>)>>),
               Block("variable", <<"zone">>,
                     <<StrLine("default", <<"us", "-", "central1", "-", "a">>)>>)>>)

----------------------------------------------------------------------------
(* gcp_org_to_terraform.py: generators *)

\* self.org_id
org_id == <<"123">>

\* generate_org_policies_tf: the list_policy block
ListPolicyLine(list_policy) ==
    NestedLine("list_policy",
        Opt(Get(list_policy, "allowedValues", <<>>) # <<>>,
            NestedLine("allow", <<JsonLine("values", Get(list_policy, "allowedValues", <<>>))>>))
        \o Opt(Get(list_policy, "deniedValues", <<>>) # <<>>,
               NestedLine("deny", <<JsonLine("values", Get(list_policy, "deniedValues", <<>>))>>))
        \o OptStr(list_policy, "allValues", "suggested_value"))

\* generate_org_policies_tf with `if` in the place of its `elif`
PolicyShapeLinesBoth(policy) ==
    LET boolean_policy == Get(policy, "booleanPolicy", <<>>)
        list_policy == Get(policy, "listPolicy", <<>>)
    IN  (IF DOMAIN boolean_policy # {}
         THEN <<NestedLine("boolean_policy",
                  <<BareLine("enforced", BoolText(Get(boolean_policy, "enforced", FALSE)))>>)>>
         ELSE <<>>)
        \o (IF DOMAIN list_policy # {} THEN <<ListPolicyLine(list_policy)>> ELSE <<>>)

\* generate_org_policies_tf: `if policy.get('booleanPolicy'): ... elif
\* policy.get('listPolicy'): ...`
PolicyShapeLines(policy) ==
    LET boolean_policy == Get(policy, "booleanPolicy", <<>>)
        list_policy == Get(policy, "listPolicy", <<>>)
    IN  IF DOMAIN boolean_policy # {}
        THEN <<NestedLine("boolean_policy",
                 <<BareLine("enforced", BoolText(Get(boolean_policy, "enforced", FALSE)))>>)>>
        ELSE IF DOMAIN list_policy # {}
        THEN <<ListPolicyLine(list_policy)>>
        ELSE <<>>

\* generate_org_policies_tf: the block of one policy
OrgPolicyBlock(policy) ==
    LET constraint == LastSegment(Get(policy, "constraint", <<>>), "/")
        tf_name == org_sanitize_name(constraint)
    IN  Block("google_organization_policy", tf_name,
              <<StrLine("org_id", org_id),
                StrLine("constraint", Get(policy, "constraint", <<>>))>>
              \o PolicyShapeLines(policy))

\* generate_org_policies_tf: `if not constraint: continue`
OrgPolicyWanted(policy) == LastSegment(Get(policy, "constraint", <<>>), "/") # <<>>

\* GCPOrgToTerraform.generate_org_policies_tf
generate_org_policies_tf(res) ==
    LET policies == SelectSeq(Get(res, "org_policies_detailed", <<>>), OrgPolicyWanted)
    IN  Returned([i \in 1..Len(policies) |-> OrgPolicyBlock(policies[i])])

\* generate_org_iam_tf: a resource name made of the role alone
OrgIamBindingNameUnindexed(role, i) == org_sanitize_name(Replace(role, <<"roles", "/">>, <<>>))

\* generate_org_iam_tf: f'{tf_name}_{i}' with tf_name the sanitized role; i counts from 0
OrgIamBindingName(role, i) ==
    org_sanitize_name(Replace(role, <<"roles", "/">>, <<>>)) \o <<"_", ToString(i)>>

\* GCPOrgToTerraform.generate_org_iam_tf
generate_org_iam_tf(res) ==
    LET iam_policy == Get(res, "org_iam_policy", NoDict)
        bindings == IF iam_policy.type = "dict"
                    THEN Get(iam_policy.fields, "bindings", <<>>)
                    ELSE <<>>
        OrgIamBindingBlock(binding, i) ==
            LET role == Get(binding, "role", <<>>)
                members == Get(binding, "members", <<>>)
            IN  IF role = <<>> \/ members = <<>>
                THEN <<>>
                ELSE <<Block("google_organization_iam_binding", OrgIamBindingName(role, i),
                         <<StrLine("org_id", org_id), StrLine("role", role),
                           MembersLine(members)>>
                         \o ConditionLines(binding))>>
    IN  Returned(Flatten([i \in 1..Len(bindings) |-> OrgIamBindingBlock(bindings[i], i - 1)]))

----------------------------------------------------------------------------
(* gcp_to_terraform.py: what the gcloud commands may return *)

\* every sequence of at most n elements of S
SeqsUpTo(S, n) == UNION {[1..k -> S] : k \in 0..n}

ProdVpc == <<"prod", "-", "vpc">>
ProdDotVpc == <<"prod", ".", "vpc">>
\* the URL of a network, as the API writes it
NetworkUrl(name) == <<"global", "/", "networks", "/">> \o name

\* `gcloud compute networks list`
NetworkSamples ==
    { [name |-> ProdVpc],
      [name |-> ProdDotVpc],
      [name |-> <<>>],
      [name |-> None],
      [name |-> ProdVpc, description |-> Hostile],
      [name |-> ProdVpc, routingConfig |-> Dict([routingMode |-> <<"GLOBAL">>])],
      [name |-> ProdVpc, routingConfig |-> Scalar],
      [name |-> <<"net">>, description |-> <<>>, mtu |-> 1460,
       deleteDefaultRoutesOnCreate |-> FALSE, enableUlaInternalIpv6 |-> TRUE] }

\* `gcloud compute networks subnets list`
SubnetSamples ==
    { [name |-> <<"sub">>, network |-> NetworkUrl(ProdVpc),
       region |-> <<"regions", "/", "us">>],
      [name |-> <<"sub">>, network |-> NetworkUrl(<<"shared">>)],
      [name |-> <<"sub">>],
      [name |-> <<"sub", "-", "2">>, network |-> NetworkUrl(ProdVpc),
       purpose |-> <<"PRIVATE">>, role |-> <<>>, privateIpGoogleAccess |-> FALSE,
       secondaryIpRanges |-> <<>>] }

\* `gcloud compute firewall-rules list`
FirewallSamples ==
    { [name |-> <<"fw">>, network |-> NetworkUrl(ProdVpc)],
      [name |-> <<"fw">>, network |-> NetworkUrl(<<"shared">>), description |-> Hostile],
      [name |-> <<"fw", "-", "2">>, network |-> NetworkUrl(ProdVpc), disabled |-> FALSE,
       priority |-> 0, sourceRanges |-> <<>>, targetTags |-> <<<<"web">>>>,
       allowed |-> <<[IPProtocol |-> <<"tcp">>, ports |-> <<<<"80">>, <<"443">>>>],
                     [IPProtocol |-> <<"icmp">>]>>],
      [name |-> <<"fw", "-", "3">>, network |-> NetworkUrl(ProdVpc), disabled |-> TRUE,
       priority |-> 65535,
       allowed |-> <<[IPProtocol |-> <<"udp">>, ports |-> <<>>],
                     [IPProtocol |-> <<"tcp">>, ports |-> <<<<"22">>>>],
                     [IPProtocol |-> <<"esp">>]>>,
       denied |-> <<[IPProtocol |-> <<"all">>]>>] }

\* `gcloud container clusters list`
ClusterSamples ==
    { [name |-> <<"gke", "-", "1">>, location |-> <<"us">>],
      [name |-> <<"gke", "-", "1">>] }

\* `gcloud container node-pools list --cluster=...`
NodePoolSamples ==
    { [name |-> <<"pool">>],
      [name |-> <<"pool">>, config |-> [machineType |-> <<"e2">>]] }

AttestorPath == <<"projects", "/", "prj", "/", "attestors", "/", "att", "-", "1">>

\* `gcloud container binauthz policy export`, when it prints a policy
BinaryAuthzPolicySamples ==
    { Dict([defaultAdmissionRule |->
               [evaluationMode |-> <<"REQUIRE_ATTESTATION">>,
                requireAttestationsBy |-> <<AttestorPath>>]]) }

\* `gcloud container binauthz attestors list`
AttestorSamples == { [name |-> AttestorPath] }

\* `gcloud iam service-accounts list`
ServiceAccountSamples ==
    { [email |-> <<"sa", "-", "1", "@", "prj", ".">> \o IAM_GSA_DOMAIN],
      [email |-> <<"sa", "-", "1", "@", "developer", ".">> \o GSA_DOMAIN] }

\* the bindings of `gcloud projects get-iam-policy`
IamBindingSamples ==
    { [role |-> <<"roles", "/", "viewer">>, members |-> << <<"user", ":", "a">> >>],
      [role |-> <<"roles", "/", "viewer">>, members |-> << <<"user", ":", "a">> >>,
       condition |-> [title |-> <<"t">>, expression |-> Hostile]],
      [role |-> <<"roles", "/", "viewer">>, members |-> <<>>] }

\* 'serviceaccount.gserviceaccount.com', as extract_workload_identity spells it
WI_MARK == <<"serviceaccount", ".">> \o GSA_DOMAIN

\* the bindings of `gcloud iam service-accounts get-iam-policy`
SaBindingSamples ==
    { [role |-> <<"roles", "/", "iam", ".", "workloadIdentityUser">>,
       members |-> << <<"serviceAccount", ":", "ksa", "@">> \o WI_MARK >>],
      [role |-> <<"roles", "/", "viewer">>, members |-> << <<"user", ":", "a">> >>] }

\* `gcloud compute service-attachments list`
AttachmentSamples ==
    { [name |-> <<"att">>,
       targetService |-> <<"forwardingRules", "/", "fr", "-", "1">>],
      [name |-> <<"att">>,
       natSubnets |-> << <<"subnetworks", "/", "sub">> >>] }

\* `gcloud compute forwarding-rules list`
ForwardingRuleSamples ==
    { [name |-> <<"fr", "-", "1">>, loadBalancingScheme |-> <<"INTERNAL">>],
      [name |-> <<"fr", "-", "1">>,
       target |-> <<"serviceAttachment", "s", "/", "att">>,
       network |-> NetworkUrl(ProdVpc)],
      [name |-> <<"fr", "-", "1">>, loadBalancingScheme |-> <<"EXTERNAL">>] }

\* `gcloud logging sinks list`
LogSinkSamples ==
    { [name |-> <<"sink">>, filter |-> Hostile],
      [name |-> <<"sink">>, destination |-> <<"storage">>] }

\* the number of bindings of a policy
PolicySize(policy) ==
    IF policy.type = "dict" THEN Len(Get(policy.fields, "bindings", <<>>)) ELSE 0

\* the sum of the lengths of a sequence of sequences
TotalLen(ss) == Len(Flatten(ss))

\* the records collected so far
Used(res) ==
    Len(Get(res, "networks", <<>>)) + Len(Get(res, "subnets", <<>>))
    + Len(Get(res, "firewalls", <<>>)) + Len(Get(res, "instances", <<>>))
    + Len(Get(res, "gke_clusters", <<>>)) + Len(Get(res, "gke_node_pools", <<>>))
    + (IF DynTruthy(Get(res, "binary_authz_policy", NoDict)) THEN 1 ELSE 0)
    + Len(Get(res, "binary_authz_attestors", <<>>))
    + Len(Get(res, "service_accounts", <<>>))
    + PolicySize(Get(res, "iam_policy", NoDict))
    + TotalLen([i \in 1..Len(Get(res, "workload_identity_bindings", <<>>)) |->
                   res["workload_identity_bindings"][i].bindings])
    + Len(Get(res, "psc_attachments", <<>>)) + Len(Get(res, "psc_forwarding_rules", <<>>))
    + Len(Get(res, "log_sinks", <<>>))

\* the records one more command may still return
Room(res) == IF Used(res) >= MaxRecords THEN 0 ELSE MaxRecords - Used(res)

----------------------------------------------------------------------------
(* gcp_to_terraform.py: collection *)

\* self.api_to_methods
api_to_methods ==
    [api \in {"compute.googleapis.com", "storage-component.googleapis.com",
              "cloudfunctions.googleapis.com", "run.googleapis.com",
              "container.googleapis.com", "composer.googleapis.com",
              "sqladmin.googleapis.com", "redis.googleapis.com",
              "bigquery.googleapis.com", "spanner.googleapis.com",
              "pubsub.googleapis.com", "iam.googleapis.com",
              "secretmanager.googleapis.com", "cloudkms.googleapis.com",
              "dns.googleapis.com", "file.googleapis.com",
              "artifactregistry.googleapis.com", "cloudscheduler.googleapis.com",
              "cloudtasks.googleapis.com", "dataflow.googleapis.com",
              "dataproc.googleapis.com", "bigtable.googleapis.com",
              "monitoring.googleapis.com", "logging.googleapis.com",
              "securitycenter.googleapis.com"} |->
        CASE api = "compute.googleapis.com" ->
                {"extract_networks", "extract_firewall", "extract_routes",
                 "extract_routers", "extract_vpn_gateways", "extract_peering",
                 "extract_compute", "extract_instance_groups", "extract_compute_disks",
                 "extract_compute_images", "extract_load_balancers", "extract_health_checks",
                 "extract_ssl_certificates", "extract_network_endpoint_groups",
                 "extract_cloud_nat", "extract_cloud_armor", "extract_cloud_interconnect",
                 "extract_autoscalers", "extract_private_service_connect",
                 "extract_binary_authorization", "extract_commitments",
                 "extract_reservations", "extract_cloud_cdn"}
          [] api = "storage-component.googleapis.com" -> {"extract_storage"}
          [] api = "cloudfunctions.googleapis.com" -> {"extract_functions"}
          [] api = "run.googleapis.com" -> {"extract_cloudrun"}
          [] api = "container.googleapis.com" ->
                {"extract_gke", "extract_gke_node_pools", "extract_binary_authorization"}
          [] api = "composer.googleapis.com" -> {"extract_composer"}
          [] api = "sqladmin.googleapis.com" -> {"extract_sql"}
          [] api = "redis.googleapis.com" -> {"extract_redis"}
          [] api = "bigquery.googleapis.com" ->
                {"extract_bigquery", "extract_bigquery_tables", "extract_bigquery_routines"}
          [] api = "spanner.googleapis.com" -> {"extract_cloud_spanner"}
          [] api = "pubsub.googleapis.com" -> {"extract_pubsub", "extract_pubsub_complete"}
          [] api = "iam.googleapis.com" ->
                {"extract_service_accounts", "extract_iam_policies",
                 "extract_iam_custom_roles", "extract_service_account_keys",
                 "extract_workload_identity"}
          [] api = "secretmanager.googleapis.com" -> {"extract_secrets"}
          [] api = "cloudkms.googleapis.com" -> {"extract_kms"}
          [] api = "dns.googleapis.com" -> {"extract_dns"}
          [] api = "file.googleapis.com" -> {"extract_filestore"}
          [] api = "artifactregistry.googleapis.com" -> {"extract_artifact_registry"}
          [] api = "cloudscheduler.googleapis.com" -> {"extract_cloud_scheduler"}
          [] api = "cloudtasks.googleapis.com" -> {"extract_cloud_tasks"}
          [] api = "dataflow.googleapis.com" -> {"extract_dataflow"}
          [] api = "dataproc.googleapis.com" -> {"extract_dataproc"}
          [] api = "bigtable.googleapis.com" -> {"extract_bigtable"}
          [] api = "monitoring.googleapis.com" ->
                {"extract_monitoring_dashboards", "extract_alerting_policies",
                 "extract_uptime_checks"}
          [] api = "logging.googleapis.com" -> {"extract_log_sinks"}
          [] OTHER -> {"extract_security_command_center"}]

\* should_extract without its first test, `if not self.enabled_apis: return True`
should_extract_listed_only(apis, method_name) ==
    \E api \in DOMAIN api_to_methods :
        api \in apis /\ method_name \in api_to_methods[api]

\* should_extract returning True whatever is enabled
should_extract_always(apis, method_name) == TRUE

\* GCPToTerraform.should_extract
should_extract(apis, method_name) ==
    \/ apis = {}
    \/ \E api \in DOMAIN api_to_methods :
          api \in apis /\ method_name \in api_to_methods[api]

\* `gcloud services list --enabled`: nothing (or a failure), or the enabled services
\* `gcloud compute instances list`
InstanceSamples == { [name |-> <<"vm", "-", "1">>] }

CertSamples ==
    { [name |-> <<"cert", "-", "1">>, type |-> <<"MANAGED">>,
       managed |-> [domains |-> <<<<"a", ".", "com">>>>]],
      [name |-> <<"cert", "-", "2">>, type |-> <<"MANAGED">>],
      [name |-> <<"cert", "-", "3">>, type |-> <<"SELF_MANAGED">>,
       description |-> <<"legacy">>],
      [name |-> <<"cert", "-", "4">>],
      [name |-> <<"cert", "-", "5">>, type |-> <<"SELF_MANAGED">>,
       managed |-> [domains |-> <<<<"b", ".", "com">>>>]] }

\* Dataproc clusters: with no config, with a config that has no masterConfig, and
\* with every combination of the three things written inside master_config
DataprocSamples ==
    { [clusterName |-> <<"dp", "-", "0">>, location |-> <<"regions", "/", "us">>],
      [clusterName |-> <<"dp", "-", "1">>, location |-> <<>>,
       config |-> [configBucket |-> <<"b">>]],
      [clusterName |-> <<"dp", "-", "2">>, location |-> <<"us">>,
       config |-> [masterConfig |-> [numInstances |-> 1]]] }
    \cup { [clusterName |-> <<"dp", "-", "3">>, location |-> <<"us">>,
            config |-> [masterConfig |->
                          [numInstances |-> n, machineType |-> m,
                           diskConfig |-> [bootDiskSizeGb |-> d]]]] :
           n \in {0, 3}, m \in {<<>>, <<"zones", "/", "n1">>}, d \in {0, 100} }

GpuSamples ==
    { [acceleratorType |-> t, acceleratorCount |-> c] :
      t \in {<<>>, <<"t4">>}, c \in {0, 2} }

InstancePropertiesSamples ==
    { [machineType |-> m, minCpuPlatform |-> p, guestAccelerators |-> g] :
      m \in {<<>>, <<"n1">>}, p \in {<<>>, <<"skylake">>}, g \in SeqsUpTo(GpuSamples, 2) }

\* reservations: with and without zone, commitment and specificReservationRequired,
\* with no specificReservation, with one that has no instanceProperties, and with
\* every combination of what is written inside instance_properties
ReservationSamples ==
    { [name |-> <<"rsv", "-", "0">>, zone |-> z, commitment |-> c,
       specificReservationRequired |-> q] :
      z \in {<<>>, <<"zones", "/", "a">>}, c \in {<<>>, <<"commitments", "/", "c1">>},
      q \in BOOLEAN }
    \cup { [name |-> <<"rsv", "-", "1">>, zone |-> <<"zones", "/", "a">>,
            specificReservation |-> [count |-> n]] : n \in {0, 4} }
    \cup { [name |-> <<"rsv", "-", "2">>, commitment |-> c,
            specificReservation |-> [count |-> n, instanceProperties |-> props]] :
           c \in {<<>>, <<"commitments", "/", "c1">>}, n \in {0, 4},
           props \in InstancePropertiesSamples }

RuleSamples ==
    { [priority |-> 1, description |-> d] : d \in {<<>>, <<"r">>} }
    \cup { [action |-> <<"deny">>, description |-> d, match |-> [versionedExpr |-> v]] :
           d \in {<<>>, <<"r">>}, v \in {<<"SRC_IPS_V1">>} }
    \cup { [action |-> <<"deny">>, match |-> [versionedExpr |-> v, config |-> [srcIpRanges |-> r]]] :
           v \in {<<>>, <<"SRC_IPS_V1">>},
           r \in {<<>>, <<<<"*">>>>, <<<<"10", ".", "0">>, <<"10", ".", "1">>>>} }

\* Cloud Armor policies: with and without description, with no rule, one or two
SecurityPolicySamples ==
    { [name |-> <<"armor">>, description |-> d, rules |-> rules] :
      d \in {<<>>, <<"edge">>}, rules \in SeqsUpTo(RuleSamples, 2) }

\* the lists of a kind that start with any record of `full` and go on with records
\* of `plain`, and the empty list
ListsLedBy(full, plain) ==
    {<<>>} \cup {<<r>> \o t : r \in full, t \in SeqsUpTo(plain, MaxRecords - 1)}

\* `gcloud compute routers list`
RouterSamples ==
    { [name |-> <<"rtr", "-", "1">>, network |-> NetworkUrl(ProdVpc),
       region |-> <<"regions", "/", "us">>,
       bgp |-> [asn |-> 65001, advertiseMode |-> <<"CUSTOM">>,
                advertisedGroups |-> <<<<"ALL_SUBNETS">>>>]],
      [name |-> <<"rtr", "-", "2">>, network |-> NetworkUrl(ProdVpc),
       region |-> <<"regions", "/", "us">>, bgp |-> [asn |-> 64512]],
      [name |-> <<"rtr", "-", "3">>, network |-> NetworkUrl(ProdVpc),
       region |-> <<"regions", "/", "eu">>, description |-> <<"edge">>],
      [name |-> <<"rtr", "-", "4">>, network |-> NetworkUrl(ProdVpc)] }

\* `gcloud compute routes list`
RouteSamples ==
    { [name |-> <<"default", "-", "route", "-", "7">>, network |-> NetworkUrl(ProdVpc),
       destRange |-> <<"0.0.0.0/0">>,
       nextHopGateway |-> <<"gateways", "/", "default-internet-gateway">>],
      [name |-> <<"to", "-", "onprem">>, network |-> NetworkUrl(ProdVpc),
       destRange |-> <<"10.0.0.0/8">>, priority |-> 100,
       nextHopIp |-> <<"10.1.1.1">>, nextHopVpnTunnel |-> <<"tunnel", "-", "1">>],
      [name |-> <<"default">>, network |-> NetworkUrl(ProdVpc),
       destRange |-> <<"10.2.0.0/16">>,
       nextHopGateway |-> <<"gateways", "/", "gw">>, nextHopInstance |-> <<"vm">>,
       nextHopIlb |-> <<"ilb">>],
      [name |-> <<"no", "-", "hop">>, network |-> NetworkUrl(ProdVpc),
       destRange |-> <<"10.3.0.0/16">>, tags |-> <<<<"web">>>>],
      [name |-> <<"my", "-", "default", "-", "route", "-">>, network |-> NetworkUrl(ProdVpc),
       nextHopIlb |-> <<"ilb">>] }

\* `gcloud compute vpn-gateways list`
VpnGatewaySamples ==
    { [name |-> <<"gw", "-", "1">>, network |-> NetworkUrl(ProdVpc),
       region |-> <<"regions", "/", "us">>] }

\* `gcloud compute vpn-tunnels list`
VpnTunnelSamples ==
    { [name |-> <<"tun", "-", "1">>, region |-> <<"regions", "/", "us">>,
       peerIp |-> <<"203.0.113.7">>, sharedSecret |-> <<"s3cr3t">>, ikeVersion |-> 2],
      [name |-> <<"tun", "-", "2">>, region |-> <<"regions", "/", "us">>,
       sharedSecret |-> <<"hunter2">>, description |-> <<"backup">>],
      [name |-> <<"tun", "-", "3">>, region |-> <<"regions", "/", "eu">>,
       peerIp |-> <<"203.0.113.9">>],
      [name |-> <<"tun", "-", "4">>, region |-> <<>>, sharedSecret |-> <<>>] }

\* `gcloud compute networks list`: networks that are peered
PeeredNetworkSamples ==
    { [name |-> ProdVpc,
       peerings |-> <<[name |-> <<"peer", "-", "1">>, network |-> NetworkUrl(<<"hub">>),
                       exportCustomRoutes |-> TRUE]>>],
      [name |-> ProdDotVpc,
       peerings |-> <<[name |-> <<"peer", "-", "1">>, network |-> NetworkUrl(<<"hub">>)],
                      [name |-> <<"peer", "-", "2">>, network |-> NetworkUrl(<<"spoke">>),
                       importCustomRoutes |-> TRUE,
                       importSubnetRoutesWithPublicIp |-> FALSE]>>],
      [name |-> <<"net">>, peerings |-> <<>>],
      [name |-> <<"lone">>] }

\* `gcloud compute routers nats list`
NatSamples ==
    { [name |-> <<"nat", "-", "1">>],
      [name |-> <<"nat", "-", "2">>, router_name |-> <<"old", "-", "rtr">>,
       natIpAllocateOption |-> <<"AUTO_ONLY">>,
       sourceSubnetworkIpRangesToNat |-> <<"LIST_OF_SUBNETWORKS">>,
       subnetworks |-> <<[name |-> <<"subnetworks", "/", "sub">>,
                          sourceIpRangesToNat |-> <<<<"ALL_IP_RANGES">>>>]>>,
       minPortsPerVm |-> 64,
       logConfig |-> [enable |-> TRUE, filter |-> <<"ERRORS_ONLY">>]] }

\* the bindings of `gcloud projects get-iam-policy` and of
\* `gcloud organizations get-iam-policy`
RoleBindingSamples ==
    { [role |-> <<"roles", "/", "viewer">>, members |-> << <<"user", ":", "a">> >>],
      [role |-> <<"roles", "/", "viewer">>, members |-> << <<"group", ":", "g">> >>,
       condition |-> [title |-> <<"t">>, expression |-> <<"true">>]],
      [role |-> <<"roles", "/", "viewer", "_", "1">>, members |-> << <<"user", ":", "a">> >>],
      [role |-> <<"organizations", "/", "123", "/", "roles", "/", "custom", ".", "role">>,
       members |-> << <<"user", ":", "a">>, <<"user", ":", "b">> >>],
      [role |-> <<"roles", "/", "editor">>, members |-> <<>>],
      [role |-> <<>>, members |-> << <<"user", ":", "a">> >>],
      [members |-> << <<"user", ":", "a">> >>] }

OrgPolicySamples ==
    { [constraint |-> <<"constraints", "/", "compute", ".", "requireOsLogin">>,
       booleanPolicy |-> [enforced |-> TRUE]],
      [constraint |-> <<"constraints", "/", "gcp", ".", "resourceLocations">>,
       listPolicy |-> [allowedValues |-> <<<<"in", ":", "us">>>>]],
      [constraint |-> <<"constraints", "/", "both">>,
       booleanPolicy |-> [enforced |-> FALSE],
       listPolicy |-> [deniedValues |-> <<<<"x">>>>, allValues |-> <<"DENY">>]],
      [constraint |-> <<"constraints", "/", "neither">>],
      [constraint |-> <<>>, booleanPolicy |-> [enforced |-> TRUE]] }

EnabledApiSamples ==
    { {},
      {"compute.googleapis.com"},
      {"container.googleapis.com"},
      {"iam.googleapis.com", "logging.googleapis.com"} }

PrjInit ==
    /\ pc = "detect_enabled_apis"
    /\ enabled_apis = {}
    /\ resources = <<>>
    /\ files = <<>>
    /\ prev_files = <<>>
    /\ runs = 0
    /\ raised = FALSE
    /\ printed = {}
    /\ SanIdle
    /\ OrgIdle
    /\ XaIdle
    /\ GenIdle

\* the variables an extraction step leaves alone
ExtractFrame ==
    UNCHANGED <<enabled_apis, files, prev_files, runs, raised, printed, san_vars, org_vars,
                xa_vars, gen_vars>>

\* GCPToTerraform.detect_enabled_apis
detect_enabled_apis ==
    /\ pc = "detect_enabled_apis"
    /\ enabled_apis' \in EnabledApiSamples
    /\ pc' = "extract_networks"
    /\ UNCHANGED <<resources, files, prev_files, runs, raised, printed, san_vars, org_vars,
                   xa_vars, gen_vars>>

\* GCPToTerraform.extract_networks, under its test in extract_all
extract_networks ==
    /\ pc = "extract_networks"
    /\ IF should_extract(enabled_apis, "extract_networks")
       THEN /\ \E networks \in SeqsUpTo(NetworkSamples, Room(resources)) :
               \E subnets \in SeqsUpTo(SubnetSamples, Room(resources) - Len(networks)) :
                  resources' = Put(Put(resources, "networks", networks), "subnets", subnets)
            /\ pc' = "extract_firewall"
       ELSE /\ resources' = resources
            /\ pc' = "extract_compute"
    /\ ExtractFrame

\* GCPToTerraform.extract_firewall
extract_firewall ==
    /\ pc = "extract_firewall"
    /\ \E firewalls \in SeqsUpTo(FirewallSamples, Room(resources)) :
          resources' = Put(resources, "firewalls", firewalls)
    /\ pc' = "extract_compute"
    /\ ExtractFrame

\* GCPToTerraform.extract_compute, under its test in extract_all
extract_compute ==
    /\ pc = "extract_compute"
    /\ IF should_extract(enabled_apis, "extract_compute")
       THEN \E instances \in SeqsUpTo(InstanceSamples, Room(resources)) :
               resources' = Put(resources, "instances", instances)
       ELSE resources' = resources
    /\ pc' = "extract_gke"
    /\ ExtractFrame

\* GCPToTerraform.extract_gke, under its test in extract_all
extract_gke ==
    /\ pc = "extract_gke"
    /\ IF should_extract(enabled_apis, "extract_gke")
       THEN /\ \E clusters \in SeqsUpTo(ClusterSamples, Room(resources)) :
                  resources' = Put(resources, "gke_clusters", clusters)
            /\ pc' = "extract_gke_node_pools"
       ELSE /\ resources' = resources
            /\ pc' = "extract_binary_authorization"
    /\ ExtractFrame

\* the node pools of one cluster, each tagged with the cluster's name and location
TaggedPools(cluster, node_pools) ==
    LET cluster_name == Get(cluster, "name", <<>>)
        location == Get(cluster, "location", <<>>)
    IN  [j \in 1..Len(node_pools) |->
            Put(Put(node_pools[j], "cluster_name", cluster_name),
                "cluster_location", location)]

\* `if cluster_name and location:` of extract_gke_node_pools
ClusterListed(cluster) ==
    /\ Get(cluster, "name", <<>>) \notin {<<>>, None}
    /\ Get(cluster, "location", <<>>) # <<>>

\* GCPToTerraform.extract_gke_node_pools: one listing per cluster
extract_gke_node_pools ==
    /\ pc = "extract_gke_node_pools"
    /\ LET clusters == Get(resources, "gke_clusters", <<>>)
       IN  \E listing \in [1..Len(clusters) -> SeqsUpTo(NodePoolSamples, Room(resources))] :
              /\ TotalLen(listing) <= Room(resources)
              /\ \A i \in 1..Len(clusters) :
                    ~ClusterListed(clusters[i]) => listing[i] = <<>>
              /\ resources' = Put(resources, "gke_node_pools",
                                  Flatten([i \in 1..Len(clusters) |->
                                              TaggedPools(clusters[i], listing[i])]))
    /\ pc' = "extract_binary_authorization"
    /\ ExtractFrame

\* GCPToTerraform.extract_binary_authorization, under its test in extract_all
extract_binary_authorization ==
    /\ pc = "extract_binary_authorization"
    /\ IF should_extract(enabled_apis, "extract_binary_authorization")
       THEN \E exported \in BOOLEAN :
            \E sample \in BinaryAuthzPolicySamples :
            \E attestors \in SeqsUpTo(AttestorSamples, Room(resources)) :
               LET policy == IF exported THEN sample ELSE NoDict
               IN  /\ (IF exported THEN 1 ELSE 0) + Len(attestors) <= Room(resources)
                   /\ resources' = Put(Put(resources, "binary_authz_policy", policy),
                                       "binary_authz_attestors", attestors)
       ELSE resources' = resources
    /\ pc' = "extract_service_accounts"
    /\ ExtractFrame

\* GCPToTerraform.extract_service_accounts, under its test in extract_all
extract_service_accounts ==
    /\ pc = "extract_service_accounts"
    /\ IF should_extract(enabled_apis, "extract_service_accounts")
       THEN /\ \E sas \in SeqsUpTo(ServiceAccountSamples, Room(resources)) :
                  resources' = Put(resources, "service_accounts", sas)
            /\ pc' = "extract_iam_policies"
       ELSE /\ resources' = resources
            /\ pc' = "extract_private_service_connect"
    /\ ExtractFrame

\* GCPToTerraform.extract_iam_policies: run_gcloud yields [] when the command
\* fails or prints nothing, and the list is stored as it is
extract_iam_policies ==
    /\ pc = "extract_iam_policies"
    /\ \E answered \in BOOLEAN :
       \E bindings \in SeqsUpTo(IamBindingSamples, Room(resources)) :
          /\ ~answered => bindings = <<>>
          /\ resources' = Put(resources, "iam_policy",
                              IF answered THEN Dict([bindings |-> bindings])
                              ELSE List(<<>>))
    /\ pc' = "extract_workload_identity"
    /\ ExtractFrame

\* `any('serviceaccount.gserviceaccount.com' in member ...)`
IsWiBinding(b) ==
    \E k \in 1..Len(Get(b, "members", <<>>)) : Contains(b.members[k], WI_MARK)

\* the entries extract_workload_identity appends, one service account after another
RECURSIVE WorkloadIdentities(_, _, _)
WorkloadIdentities(service_accounts, policies, i) ==
    IF i > Len(service_accounts) THEN <<>>
    ELSE LET wi_bindings == SelectSeq(policies[i], IsWiBinding)
         IN  (IF wi_bindings # <<>>
              THEN <<[service_account |-> Get(service_accounts[i], "email", <<>>),
                      bindings |-> wi_bindings]>>
              ELSE <<>>)
             \o WorkloadIdentities(service_accounts, policies, i + 1)

\* GCPToTerraform.extract_workload_identity: one get-iam-policy per service account;
\* a failed query yields [] and policy.get raises inside the inner try, which
\* leaves that account out, as a policy without bindings does
extract_workload_identity ==
    /\ pc = "extract_workload_identity"
    /\ LET service_accounts == Get(resources, "service_accounts", <<>>)
       IN  \E policies \in [1..Len(service_accounts) ->
                               SeqsUpTo(SaBindingSamples, Room(resources))] :
              /\ TotalLen(policies) <= Room(resources)
              /\ resources' = Put(resources, "workload_identity_bindings",
                                  WorkloadIdentities(service_accounts, policies, 1))
    /\ pc' = "extract_private_service_connect"
    /\ ExtractFrame

\* the filter of extract_private_service_connect
IsPscRule(fr) ==
    \/ Contains(Get(fr, "target", <<>>), <<"serviceAttachment">>)
    \/ Get(fr, "loadBalancingScheme", <<>>) = <<"INTERNAL">>

\* GCPToTerraform.extract_private_service_connect, under the test of
\* extract_load_balancers in extract_all
extract_private_service_connect ==
    /\ pc = "extract_private_service_connect"
    /\ IF should_extract(enabled_apis, "extract_load_balancers")
       THEN \E attachments \in SeqsUpTo(AttachmentSamples, Room(resources)) :
            \E forwarding_rules \in
                  SeqsUpTo(ForwardingRuleSamples, Room(resources) - Len(attachments)) :
               resources' = Put(Put(resources, "psc_attachments", attachments),
                                "psc_forwarding_rules",
                                SelectSeq(forwarding_rules, IsPscRule))
       ELSE resources' = resources
    /\ pc' = "extract_log_sinks"
    /\ ExtractFrame

\* GCPToTerraform.extract_log_sinks, under the test of extract_logging in extract_all
extract_log_sinks ==
    /\ pc = "extract_log_sinks"
    /\ IF should_extract(enabled_apis, "extract_logging")
       THEN \E sinks \in SeqsUpTo(LogSinkSamples, Room(resources)) :
               resources' = Put(resources, "log_sinks", sinks)
       ELSE resources' = resources
    /\ pc' = "save_terraform_files"
    /\ ExtractFrame

----------------------------------------------------------------------------
(* gcp_to_terraform.py: save_terraform_files *)

\* the files save_terraform_files writes, in the order it writes them
Units ==
    <<"provider.tf", "variables.tf", "networks.tf", "firewall.tf", "gke.tf", "iam.tf",
      "iam_policies.tf", "gke_node_pools.tf", "private_service_connect.tf",
      "workload_identity.tf", "binary_authorization.tf", "log_sinks.tf", "README.md">>

\* evaluating the `if` in front of a unit raises: .get on an iam_policy that is a list
UnitTestRaises(unit, res) ==
    unit = "iam_policies.tf" /\ GetRaises(Get(res, "iam_policy", NoDict))

\* the `if` in front of a unit
UnitWanted(unit, res) ==
    CASE unit = "networks.tf" ->
            Get(res, "networks", <<>>) # <<>> \/ Get(res, "subnets", <<>>) # <<>>
      [] unit = "firewall.tf" -> Get(res, "firewalls", <<>>) # <<>>
      [] unit = "gke.tf" -> Get(res, "gke_clusters", <<>>) # <<>>
      [] unit = "iam.tf" -> Get(res, "service_accounts", <<>>) # <<>>
      [] unit = "iam_policies.tf" ->
            Get(Get(res, "iam_policy", NoDict).fields, "bindings", <<>>) # <<>>
      [] unit = "gke_node_pools.tf" -> Get(res, "gke_node_pools", <<>>) # <<>>
      [] unit = "private_service_connect.tf" ->
            \/ Get(res, "psc_attachments", <<>>) # <<>>
            \/ Get(res, "psc_forwarding_rules", <<>>) # <<>>
      [] unit = "workload_identity.tf" ->
            Get(res, "workload_identity_bindings", <<>>) # <<>>
      [] unit = "binary_authorization.tf" ->
            \/ DynTruthy(Get(res, "binary_authz_policy", NoDict))
            \/ Get(res, "binary_authz_attestors", <<>>) # <<>>
      [] unit = "log_sinks.tf" -> Get(res, "log_sinks", <<>>) # <<>>
      [] OTHER -> TRUE

\* the generate_* call whose result is written to a unit
UnitText(unit, res) ==
    CASE unit = "provider.tf" -> generate_provider_tf
      [] unit = "variables.tf" -> generate_variables_tf
      [] unit = "networks.tf" -> generate_network_tf(res)
      [] unit = "firewall.tf" -> generate_firewall_tf(res)
      [] unit = "gke.tf" -> generate_gke_tf(res)
      [] unit = "iam.tf" -> generate_service_accounts_tf(res)
      [] unit = "iam_policies.tf" -> generate_iam_policies_tf(res)
      [] unit = "gke_node_pools.tf" -> generate_gke_node_pools_tf(res)
      [] unit = "private_service_connect.tf" -> generate_private_service_connect_tf(res)
      [] unit = "workload_identity.tf" -> generate_workload_identity_tf(res)
      [] unit = "binary_authorization.tf" -> generate_binary_authorization_tf(res)
      [] unit = "log_sinks.tf" -> generate_log_sinks_tf(res)
      [] OTHER ->
            Returned(<<Block("readme", project_id,
                             <<BareLine("Compute Instances",
                                        <<ToString(Len(Get(res, "instances", <<>>)))>>)>>)>>)

\* a file opened with "a" instead of "w": the new text follows the old
WriteFileAppending(old, text) == old \o text

\* `with open(path, "w") as f: f.write(text)`: the new text replaces the old
WriteFile(old, text) == text

\* the marks the script starts its printed lines with: the check mark and the
\* warning sign
CHECK_MARK == "ok"
WARNING_MARK == "warning"

\* print(f"   {mark} {about}")
Printed(mark, about) == [mark |-> mark, about |-> about]

\* the body of save_terraform_files from unit i on: the files on disk, whether an
\* exception escaped, and the lines printed, one after each file written.
\* open(..., "w") comes before the generate_* call, so a
\* generator that raises leaves its file empty.
RECURSIVE SaveFrom(_, _, _)
SaveFrom(res, fs, i) ==
    IF i > Len(Units) THEN [files |-> fs, raised |-> FALSE, printed |-> {}]
    ELSE LET unit == Units[i]
         IN  IF UnitTestRaises(unit, res) THEN [files |-> fs, raised |-> TRUE, printed |-> {}]
             ELSE IF ~UnitWanted(unit, res) THEN SaveFrom(res, fs, i + 1)
             ELSE LET out == UnitText(unit, res)
                      rest == SaveFrom(res, Put(fs, unit, WriteFile(Get(fs, unit, <<>>), out.text)),
                                       i + 1)
                  IN  IF out.raised
                      THEN [files |-> Put(fs, unit, <<>>), raised |-> TRUE, printed |-> {}]
                      ELSE [rest EXCEPT !.printed = @ \cup {Printed(CHECK_MARK, unit)}]

\* GCPToTerraform.save_terraform_files: main() calls it once after extract_all;
\* a caller may call it again on the same instance
save_terraform_files ==
    /\ pc \in {"save_terraform_files", "done", "raised"}
    /\ runs < MaxRuns
    /\ LET saved == SaveFrom(resources, files, 1)
       IN  /\ files' = saved.files
           /\ raised' = saved.raised
           /\ pc' = IF saved.raised THEN "raised" ELSE "done"
           /\ printed' = printed \cup saved.printed
    /\ prev_files' = files
    /\ runs' = runs + 1
    /\ UNCHANGED <<enabled_apis, resources, san_vars, org_vars, xa_vars, gen_vars>>

PrjNext ==
    \/ detect_enabled_apis
    \/ extract_networks
    \/ extract_firewall
    \/ extract_compute
    \/ extract_gke
    \/ extract_gke_node_pools
    \/ extract_binary_authorization
    \/ extract_service_accounts
    \/ extract_iam_policies
    \/ extract_workload_identity
    \/ extract_private_service_connect
    \/ extract_log_sinks
    \/ save_terraform_files

Spec == PrjInit /\ [][PrjNext]_vars

----------------------------------------------------------------------------
(* gcp_to_terraform.py: the tests and calls of extract_all, without the data *)

\* the `if self.should_extract(...)` statements of extract_all in order, each with
\* the methods called under it
extract_all_plan ==
    << [test |-> "extract_networks",
        calls |-> <<"extract_networks", "extract_firewall", "extract_routes",
                    "extract_routers", "extract_vpn_gateways", "extract_peering">>],
       [test |-> "extract_compute",
        calls |-> <<"extract_compute", "extract_instance_groups", "extract_compute_disks",
                    "extract_compute_images", "extract_autoscalers",
                    "extract_commitments", "extract_reservations">>],
       [test |-> "extract_storage", calls |-> <<"extract_storage">>],
       [test |-> "extract_functions", calls |-> <<"extract_functions">>],
       [test |-> "extract_cloudrun", calls |-> <<"extract_cloud_run">>],
       [test |-> "extract_gke", calls |-> <<"extract_gke", "extract_gke_node_pools">>],
       [test |-> "extract_binary_authorization",
        calls |-> <<"extract_binary_authorization">>],
       [test |-> "extract_composer", calls |-> <<"extract_composer">>],
       [test |-> "extract_sql", calls |-> <<"extract_sql">>],
       [test |-> "extract_redis", calls |-> <<"extract_redis">>],
       [test |-> "extract_bigquery",
        calls |-> <<"extract_bigquery", "extract_bigquery_tables",
                    "extract_bigquery_routines">>],
       [test |-> "extract_cloud_spanner", calls |-> <<"extract_cloud_spanner">>],
       [test |-> "extract_bigtable", calls |-> <<"extract_bigtable">>],
       [test |-> "extract_pubsub", calls |-> <<"extract_pubsub", "extract_pubsub_complete">>],
       [test |-> "extract_service_accounts",
        calls |-> <<"extract_service_accounts", "extract_iam_policies",
                    "extract_iam_custom_roles", "extract_service_account_keys",
                    "extract_workload_identity">>],
       [test |-> "extract_secrets", calls |-> <<"extract_secrets">>],
       [test |-> "extract_kms", calls |-> <<"extract_kms">>],
       [test |-> "extract_dns", calls |-> <<"extract_dns">>],
       [test |-> "extract_load_balancers",
        calls |-> <<"extract_load_balancers", "extract_health_checks",
                    "extract_ssl_certificates", "extract_network_endpoint_groups",
                    "extract_cloud_nat", "extract_cloud_armor",
                    "extract_cloud_interconnect", "extract_private_service_connect",
                    "extract_cloud_cdn">>],
       [test |-> "extract_filestore", calls |-> <<"extract_filestore">>],
       [test |-> "extract_artifact_registry", calls |-> <<"extract_artifact_registry">>],
       [test |-> "extract_cloud_scheduler", calls |-> <<"extract_cloud_scheduler">>],
       [test |-> "extract_cloud_tasks", calls |-> <<"extract_cloud_tasks">>],
       [test |-> "extract_dataflow", calls |-> <<"extract_dataflow">>],
       [test |-> "extract_dataproc", calls |-> <<"extract_dataproc">>],
       [test |-> "extract_monitoring_dashboards",
        calls |-> <<"extract_monitoring_dashboards", "extract_alerting_policies",
                    "extract_uptime_checks">>],
       [test |-> "extract_logging", calls |-> <<"extract_log_sinks">>],
       [test |-> "extract_security_command_center",
        calls |-> <<"extract_security_command_center">>] >>

\* the service names that `gcloud services list --enabled` is taken to report: sets of
\* these, one of them a service that api_to_methods does not know
ServiceNames ==
    {"compute.googleapis.com", "run.googleapis.com", "container.googleapis.com",
     "iam.googleapis.com", "logging.googleapis.com", "bigquery.googleapis.com",
     "oslogin.googleapis.com"}

XaInit ==
    /\ xa_pc = 0
    /\ xa_enabled_apis = {}
    /\ xa_calls = <<>>
    /\ xa_detect_raised \in BOOLEAN
    /\ SanIdle
    /\ PrjIdle
    /\ OrgIdle
    /\ GenIdle

\* extract_all calling detect_enabled_apis: the command fails or its output does not
\* parse, and the set stays as __init__ made it, or every reported name is added
extract_all_detect ==
    /\ xa_pc = 0
    /\ xa_calls = <<>>
    /\ IF xa_detect_raised
       THEN xa_enabled_apis' = xa_enabled_apis
       ELSE \E services \in SUBSET ServiceNames :
               xa_enabled_apis' = xa_enabled_apis \cup services
    /\ xa_pc' = 1
    /\ xa_calls' = <<"detect_enabled_apis">>
    /\ UNCHANGED <<xa_detect_raised, san_vars, prj_vars, org_vars, gen_vars>>

\* extract_all putting the calls under a test in front of those made so far
extract_all_group_prepending ==
    /\ xa_pc \in 1..Len(extract_all_plan)
    /\ xa_calls' = IF should_extract(xa_enabled_apis, extract_all_plan[xa_pc].test)
                   THEN extract_all_plan[xa_pc].calls \o xa_calls
                   ELSE xa_calls
    /\ xa_pc' = xa_pc + 1
    /\ UNCHANGED <<xa_enabled_apis, xa_detect_raised, san_vars, prj_vars, org_vars, gen_vars>>

\* extract_all at its next `if self.should_extract(test):`, with the calls under it
extract_all_group ==
    /\ xa_pc \in 1..Len(extract_all_plan)
    /\ xa_calls' = IF should_extract(xa_enabled_apis, extract_all_plan[xa_pc].test)
                   THEN xa_calls \o extract_all_plan[xa_pc].calls
                   ELSE xa_calls
    /\ xa_pc' = xa_pc + 1
    /\ UNCHANGED <<xa_enabled_apis, xa_detect_raised, san_vars, prj_vars, org_vars, gen_vars>>

\* main(): extractor.save_terraform_files() once extractor.extract_all() has returned
main_save ==
    /\ xa_pc = Len(extract_all_plan) + 1
    /\ xa_pc' = xa_pc + 1
    /\ UNCHANGED <<xa_enabled_apis, xa_calls, xa_detect_raised, san_vars, prj_vars, org_vars,
                   gen_vars>>

XaNext == extract_all_detect \/ extract_all_group \/ main_save

SpecExtractAll == XaInit /\ [][XaNext]_vars

\* extract_all runs to its end once it is called: it has no loop and waits for nothing
SpecExtractAllFair == SpecExtractAll /\ WF_vars(XaNext)

----------------------------------------------------------------------------
(* both scripts: a generate_* method called on an instance that holds an inventory *)

\* the instance after a generate_* call: the methods build a local string from
\* self.resources.get(...) and return it; none assigns to self, calls a method that
\* does, writes a file or runs a command
SelfAfterGenerateEmptied(res) == [k \in DOMAIN res |-> <<>>]

SelfAfterGenerate(res) == res

\* the generate_* methods called here
Generators ==
    {"generate_network_tf", "generate_firewall_tf", "generate_ssl_certificates_tf",
     "generate_dataproc_tf", "generate_reservations_tf", "generate_cloud_armor_tf",
     "generate_routers_tf",
     "generate_routes_tf",
     "generate_vpn_tf",
     "generate_peering_tf",
     "generate_cloud_nat_tf",
     "generate_iam_policies_tf",
     "generate_org_iam_tf",
     "generate_org_policies_tf"}

\* what the method named g returns
Generate(g) ==
    CASE g = "generate_network_tf" -> generate_network_tf(resources)
      [] g = "generate_firewall_tf" -> generate_firewall_tf(resources)
      [] g = "generate_ssl_certificates_tf" -> generate_ssl_certificates_tf(resources)
      [] g = "generate_dataproc_tf" -> generate_dataproc_tf(resources)
      [] g = "generate_reservations_tf" -> generate_reservations_tf(resources)
      [] g = "generate_cloud_armor_tf" -> generate_cloud_armor_tf(resources)
      [] g = "generate_routers_tf" -> generate_routers_tf(resources)
      [] g = "generate_routes_tf" -> generate_routes_tf(resources)
      [] g = "generate_vpn_tf" -> generate_vpn_tf(resources)
      [] g = "generate_peering_tf" -> generate_peering_tf(resources)
      [] g = "generate_cloud_nat_tf" -> generate_cloud_nat_tf(resources)
      [] g = "generate_iam_policies_tf" -> generate_iam_policies_tf(resources)
      [] g = "generate_org_iam_tf" -> generate_org_iam_tf(org_resources)
      [] g = "generate_org_policies_tf" -> generate_org_policies_tf(org_resources)

\* self.resources with the records of one kind
Inventory(key, records) ==
    Put([networks |-> <<>>, subnets |-> <<>>, firewalls |-> <<>>, ssl_certificates |-> <<>>],
        key, records)

\* an inventory the collection left on the instances
GenInit ==
    /\ pc = "idle"
    /\ enabled_apis \in {apis \in EnabledApiSamples : Cardinality(apis) # 1}
    /\ \/ /\ \/ resources \in {Inventory("networks", r) : r \in SeqsUpTo(NetworkSamples, MaxRecords)}
             \/ resources \in {Inventory("subnets", r) : r \in SeqsUpTo(SubnetSamples, MaxRecords)}
             \/ resources \in {Inventory("firewalls", r) : r \in SeqsUpTo(FirewallSamples, MaxRecords)}
             \/ resources \in {Inventory("ssl_certificates", r) :
                                  r \in SeqsUpTo(CertSamples, MaxRecords)}
             \/ resources \in {Inventory("dataproc_clusters", r) :
                                  r \in SeqsUpTo(DataprocSamples, MaxRecords)}
             \/ resources \in {Inventory("reservations", r) :
                                  r \in ListsLedBy(ReservationSamples,
                                                   {r \in ReservationSamples :
                                                      r.name = <<"rsv", "-", "1">>})}
             \/ resources \in {Inventory("security_policies", r) :
                                  r \in ListsLedBy(SecurityPolicySamples,
                                                   {r \in SecurityPolicySamples :
                                                      Len(r.rules) = 1 /\ r.description = <<>>
                                                      /\ "match" \notin DOMAIN r.rules[1]})}
             \/ resources \in {Inventory("routers", r) : r \in SeqsUpTo(RouterSamples, MaxRecords)}
             \/ resources \in {Inventory("routes", r) : r \in SeqsUpTo(RouteSamples, MaxRecords)}
             \/ resources \in {Put(Inventory("vpn_gateways", g), "vpn_tunnels", t) :
                                  g \in SeqsUpTo(VpnGatewaySamples, 1),
                                  t \in SeqsUpTo(VpnTunnelSamples, MaxRecords)}
             \/ resources \in {Inventory("networks", r) :
                                  r \in SeqsUpTo(PeeredNetworkSamples, MaxRecords)}
             \/ resources \in {Put(Inventory("networks", <<>>), "iam_policy",
                                      Dict([bindings |-> b])) :
                                  b \in SeqsUpTo(RoleBindingSamples, MaxRecords)}
          /\ org_resources = [org_policies_detailed |-> <<>>]
       \/ /\ resources = Inventory("networks", <<>>)
          /\ \/ org_resources \in {[org_policies_detailed |-> policies] :
                                      policies \in SeqsUpTo(OrgPolicySamples, MaxRecords)}
             \/ org_resources \in {[org_policies_detailed |-> <<>>,
                                     org_iam_policy |-> Dict([bindings |-> b])] :
                                      b \in SeqsUpTo(RoleBindingSamples, MaxRecords)}
             \/ org_resources = [org_policies_detailed |-> <<>>,
                                 org_iam_policy |-> List(<<>>)]
    /\ files = <<>>
    /\ prev_files = <<>>
    /\ runs = 0
    /\ raised = FALSE
    /\ printed = {}
    /\ org_pc = "idle"
    /\ org_files = <<>>
    /\ GenIdle
    /\ SanIdle
    /\ XaIdle

\* one call of a generate_* method
call_generate(g) ==
    /\ gen_last' = g
    /\ gen_text' = Generate(g)
    /\ resources' = SelfAfterGenerate(resources)
    /\ org_resources' = SelfAfterGenerate(org_resources)
    /\ UNCHANGED <<pc, enabled_apis, files, prev_files, runs, raised, printed, org_pc,
                   org_files, san_vars, xa_vars>>

\* extract_peering, called before any generate_* method on an inventory whose
\* networks were listed with their peerings
extract_peering ==
    LET networks == Get(resources, "networks", <<>>)
        OfNetwork(net) ==
            LET net_name == Get(net, "name", <<>>)
                listed == Get(net, "peerings", <<>>)
            IN  [i \in 1..Len(listed) |-> [network |-> net_name, peering |-> listed[i]]]
    IN  /\ gen_last = "none"
        /\ "peerings" \notin DOMAIN resources
        /\ \E n \in 1..Len(networks) : "peerings" \in DOMAIN networks[n]
        /\ resources' = Put(resources, "peerings",
                            Flatten([n \in 1..Len(networks) |-> OfNetwork(networks[n])]))
        /\ UNCHANGED <<pc, enabled_apis, files, prev_files, runs, raised, printed, org_vars,
                       san_vars, xa_vars, gen_vars>>

\* extract_cloud_nat: a record without its router
NatOfRouterUntagged(nat, router_name, region) == nat

\* extract_cloud_nat: `nat['router_name'] = router_name` and `nat['region'] = region`
NatOfRouter(nat, router_name, region) ==
    Put(Put(nat, "router_name", router_name), "region", region)

\* extract_cloud_nat, called before any generate_* method once the routers are listed;
\* answers[r] is what `gcloud compute routers nats list` gives for router r, the empty
\* list when the command fails
extract_cloud_nat ==
    LET routers == Get(resources, "routers", <<>>)
        OfRouter(router, nats) ==
            LET router_name == Get(router, "name", <<>>)
                region == IF Get(router, "region", <<>>) # <<>>
                          THEN LastSegment(Get(router, "region", <<>>), "/")
                          ELSE <<>>
            IN  IF router_name \notin {<<>>, None} /\ region # <<>>
                THEN [i \in 1..Len(nats) |-> NatOfRouter(nats[i], router_name, region)]
                ELSE <<>>
    IN  /\ gen_last = "none"
        /\ "routers" \in DOMAIN resources
        /\ "cloud_nats" \notin DOMAIN resources
        /\ \E answers \in [1..Len(routers) -> SeqsUpTo(NatSamples, 1)] :
              resources' = Put(resources, "cloud_nats",
                               Flatten([r \in 1..Len(routers) |->
                                           OfRouter(routers[r], answers[r])]))
        /\ UNCHANGED <<pc, enabled_apis, files, prev_files, runs, raised, printed, org_vars,
                       san_vars, xa_vars, gen_vars>>

GenNext ==
    \/ extract_peering
    \/ extract_cloud_nat
    \/ \E g \in Generators : call_generate(g)

SpecGenerate == GenInit /\ [][GenNext]_vars

----------------------------------------------------------------------------
(* Properties *)

\* save_terraform_files has returned normally at least once
Saved == pc = "done" /\ runs >= 1

\* the blocks of a unit, none when the unit was not written
UnitBlocks(unit) == Get(files, unit, <<>>)

\* the lines of a block that set the attribute attr
LinesOf(block, attr) == {l \in {block.body[k] : k \in 1..Len(block.body)} : l.attr = attr}

\* the blocks that declare a resource
IsResourceBlock(block) == block.rtype \notin {"terraform", "provider", "variable", "readme"}

\* record i of a list has the name the reference attribute of rec ends in
Names(rec, list, i) ==
    /\ NetworkName(rec) # <<>>
    /\ Get(list[i], "name", <<>>) = NetworkName(rec)

\* block `block` sets attr to the symbolic name of block `target`
RefersTo(block, attr, target) ==
    /\ LinesOf(block, attr) # {}
    /\ \A l \in LinesOf(block, attr) :
          /\ l.form = "ref"
          /\ l.ref.rtype = target.rtype
          /\ l.ref.label = target.label

\* C1: when record B's reference attribute names record A and both were collected,
\* B's block refers to A's block by A's symbolic name, not by a literal: subnet to
\* network, firewall rule to network, GKE node pool to GKE cluster
C1_ReferencesAreSymbolic ==
    Saved =>
        LET networks == Get(resources, "networks", <<>>)
            subnets == Get(resources, "subnets", <<>>)
            firewalls == Get(resources, "firewalls", <<>>)
            clusters == Get(resources, "gke_clusters", <<>>)
            pools == Get(resources, "gke_node_pools", <<>>)
        IN  /\ \A i \in 1..Len(networks), j \in 1..Len(subnets) :
                  Names(subnets[j], networks, i) =>
                      RefersTo(UnitBlocks("networks.tf")[Len(networks) + j], "network",
                               UnitBlocks("networks.tf")[i])
            /\ \A i \in 1..Len(networks), j \in 1..Len(firewalls) :
                  Names(firewalls[j], networks, i) =>
                      RefersTo(UnitBlocks("firewall.tf")[j], "network",
                               UnitBlocks("networks.tf")[i])
            /\ \A i \in 1..Len(clusters), j \in 1..Len(pools) :
                  pools[j].cluster_name = Get(clusters[i], "name", <<>>) =>
                      RefersTo(UnitBlocks("gke_node_pools.tf")[j], "cluster",
                               UnitBlocks("gke.tf")[i])

\* the reference attribute of rec names no collected network, or is empty or missing
Dangling(rec) ==
    \A i \in 1..Len(Get(resources, "networks", <<>>)) :
        ~Names(rec, resources["networks"], i)

\* block `block` sets attr to a quoted literal
SetsLiteral(block, attr) ==
    /\ LinesOf(block, attr) # {}
    /\ \A l \in LinesOf(block, attr) : l.form = "str" /\ WellFormedLiteral(l.text)

\* C2: a subnet or firewall rule whose network is not among the collected networks,
\* or is empty or missing, gets the literal as a quoted string, never a symbolic
\* reference to a block that is not written
C2_DanglingReferenceIsLiteral ==
    Saved =>
        LET networks == Get(resources, "networks", <<>>)
            subnets == Get(resources, "subnets", <<>>)
            firewalls == Get(resources, "firewalls", <<>>)
        IN  /\ \A j \in 1..Len(subnets) :
                  Dangling(subnets[j]) =>
                      SetsLiteral(UnitBlocks("networks.tf")[Len(networks) + j], "network")
            /\ \A j \in 1..Len(firewalls) :
                  Dangling(firewalls[j]) =>
                      SetsLiteral(UnitBlocks("firewall.tf")[j], "network")

\* C3: two networks with different names are both written, under different labels
C3_CollidingNamesGetDistinctLabels ==
    Saved =>
        LET networks == Get(resources, "networks", <<>>)
        IN  \A i \in 1..Len(networks), j \in 1..Len(networks) :
                (i < j /\ networks[i].name # networks[j].name) =>
                    /\ Len(UnitBlocks("networks.tf")) >= Len(networks)
                    /\ UnitBlocks("networks.tf")[i].label # UnitBlocks("networks.tf")[j].label

\* every quoted literal of every written unit
WrittenLiterals ==
    UNION {UNION {LiteralsOf(UnitBlocks(unit)[i].body) : i \in 1..Len(UnitBlocks(unit))} :
              unit \in DOMAIN files}

\* C4: every string attribute is written as one well-formed string literal, also when
\* its value holds a quote, a backslash and a newline
C4_LiteralsAreWellFormed ==
    Saved => \A text \in WrittenLiterals : WellFormedLiteral(text)

C6_LabelsNonEmpty ==
    Saved =>
        \A unit \in DOMAIN files : \A i \in 1..Len(UnitBlocks(unit)) :
            IsResourceBlock(UnitBlocks(unit)[i]) => UnitBlocks(unit)[i].label # <<>>

\* C7: sanitize_name, in both scripts, turns every ".", "-", "/" and space into "_"
\* and leaves every other character as it is, in its place
C7_SanitizeReplacesFour ==
    san_pc >= 1 =>
        /\ Len(san_out) = Len(san_in)
        /\ \A i \in 1..Len(san_in) :
              san_out[i] = IF san_in[i] \in {".", "-", "/", " "} THEN "_" ELSE san_in[i]

\* C8: sanitize_name, in both scripts, applied to its own result changes nothing
C8_SanitizeIdempotent == san_pc = 2 => san_again = san_out

\* the sanitizer was applied twice to a name it had to change
C8_Witness == san_pc = 2 /\ san_out # san_in /\ san_again = san_out

\* C9: no exception escapes save_terraform_files because of one record of unexpected
\* shape, and the units after it are still written
C9_BadRecordIsSkipped ==
    (runs >= 1 /\ ~GetRaises(Get(resources, "iam_policy", NoDict))) =>
        /\ ~raised
        /\ "README.md" \in DOMAIN files

\* a block of type rtype and label `label` is written before block i of unit u
WrittenBefore(rtype, label, u, i) ==
    \E v \in 1..u : \E j \in 1..Len(UnitBlocks(Units[v])) :
        /\ v < u \/ j < i
        /\ UnitBlocks(Units[v])[j].rtype = rtype
        /\ UnitBlocks(Units[v])[j].label = label

\* the types of block that a service attachment's target_service, an attestation
\* requirement's require_attestations_by and a workload identity binding's
\* service_account_id refer to
NamedTargets ==
    {"google_compute_forwarding_rule", "google_binary_authorization_attestor",
     "google_service_account"}

\* C10: every symbolic reference names a block of that type and label that is
\* written, and written earlier in the order of the units and blocks; stated for the
\* references to a forwarding rule, an attestor and a service account
C10_ReferencesPointBack ==
    Saved =>
        \A u \in 1..Len(Units) : \A i \in 1..Len(UnitBlocks(Units[u])) :
            \A ref \in RefsOf(UnitBlocks(Units[u])[i].body) :
                ref.rtype \in NamedTargets => WrittenBefore(ref.rtype, ref.label, u, i)

\* the blocks of unit `unit` of type rtype whose name attribute is the literal of name
BlocksNamed(unit, rtype, name) ==
    {k \in 1..Len(UnitBlocks(unit)) :
        /\ UnitBlocks(unit)[k].rtype = rtype
        /\ \E l \in LinesOf(UnitBlocks(unit)[k], "name") : l = StrLine("name", name)}

\* C11: a network that the inventory lists more than once is written as exactly one
\* block, never twice
C11_DuplicateWrittenOnce ==
    Saved =>
        \A i \in 1..Len(Get(resources, "networks", <<>>)) :
            resources["networks"][i].name # <<>> =>
                Cardinality(BlocksNamed("networks.tf", "google_compute_network",
                                        resources["networks"][i].name)) = 1

\* extract_all has passed its last test
ExtractAllDone == xa_pc = Len(extract_all_plan) + 1

\* the methods called under tests 1..k of extract_all
RECURSIVE CallsUpTo(_)
CallsUpTo(k) == IF k = 0 THEN <<>> ELSE CallsUpTo(k - 1) \o extract_all_plan[k].calls

\* every name that extract_all tests or calls, and one that it does neither
MethodNames ==
    UNION {{extract_all_plan[k].test} \cup
           {extract_all_plan[k].calls[c] : c \in 1..Len(extract_all_plan[k].calls)} :
           k \in 1..Len(extract_all_plan)}
    \cup {"extract_anything_else"}

Listed(name) ==
    \E api \in xa_enabled_apis \cap DOMAIN api_to_methods : name \in api_to_methods[api]

SubnetOf(j, i) ==
    LET network_url == Get(resources["subnets"][j], "network", <<>>)
        n == resources["networks"][i].name
    IN  /\ n # <<>>
        /\ Len(network_url) > Len(n)
        /\ SubSeq(network_url, Len(network_url) - Len(n), Len(network_url)) = <<"/">> \o n

\* C14: for a network named n and a subnet whose network attribute is a path ending
\* in "/n", a google_compute_network block labelled sanitize(n) is written and the
\* subnet's network line is the unquoted google_compute_network.<sanitize(n)>.id
C14_SubnetRefersToNetwork ==
    Saved =>
        LET networks == Get(resources, "networks", <<>>)
            subnets == Get(resources, "subnets", <<>>)
            blocks == UnitBlocks("networks.tf")
        IN  \A i \in 1..Len(networks), j \in 1..Len(subnets) :
                SubnetOf(j, i) =>
                    /\ \E k \in 1..Len(blocks) :
                          /\ blocks[k].rtype = "google_compute_network"
                          /\ blocks[k].label = sanitize_name(networks[i].name)
                    /\ blocks[Len(networks) + j].rtype = "google_compute_subnetwork"
                    /\ LinesOf(blocks[Len(networks) + j], "network") =
                          {[attr |-> "network", form |-> "ref", text |-> <<>>, body |-> <<>>,
                            ref |-> [rtype |-> "google_compute_network",
                                     label |-> sanitize_name(networks[i].name),
                                     field |-> "id"]]}

\* network prod-vpc and a subnet of it were written, the subnet referring to prod_vpc
C14_Witness ==
    /\ Saved
    /\ Len(Get(resources, "networks", <<>>)) = 1
    /\ Len(Get(resources, "subnets", <<>>)) = 1
    /\ resources["networks"][1].name = ProdVpc
    /\ SubnetOf(1, 1)
    /\ \E l \in LinesOf(UnitBlocks("networks.tf")[2], "network") :
          l.ref.label = <<"prod", "_", "vpc">>

\* the line opens an allow block
IsAllow(line) == line.attr = "allow"

\* the allow blocks of a firewall block, in the order written
AllowLines(block) == SelectSeq(block.body, IsAllow)

\* C15: a firewall rule with k allow entries is written with exactly k allow blocks,
\* in the order of the entries; a block has a ports line exactly when its entry has a
\* non-empty ports list, and then it holds those ports
C15_AllowBlocksFollowEntries ==
    Saved =>
        \A j \in 1..Len(Get(resources, "firewalls", <<>>)) :
            LET allowed == Get(resources["firewalls"][j], "allowed", <<>>)
                written == AllowLines(UnitBlocks("firewall.tf")[j])
            IN  /\ Len(written) = Len(allowed)
                /\ \A i \in 1..Len(allowed) :
                      LET ports == Get(allowed[i], "ports", <<>>)
                      IN  /\ LinesOf(written[i], "protocol") =
                                {StrLine("protocol", Get(allowed[i], "IPProtocol", <<"tcp">>))}
                          /\ LinesOf(written[i], "ports") =
                                (IF ports # <<>> THEN {JsonLine("ports", ports)} ELSE {})
                          /\ Len(written[i].body) = (IF ports # <<>> THEN 2 ELSE 1)

\* a rule with three allow entries was written: the first with an empty ports list,
\* the second with ports, the third without the attribute
C15_Witness ==
    /\ Saved
    /\ \E j \in 1..Len(Get(resources, "firewalls", <<>>)) :
          /\ Len(Get(resources["firewalls"][j], "allowed", <<>>)) = 3
          /\ Len(AllowLines(UnitBlocks("firewall.tf")[j])) = 3
          /\ LinesOf(AllowLines(UnitBlocks("firewall.tf")[j])[1], "ports") = {}
          /\ LinesOf(AllowLines(UnitBlocks("firewall.tf")[j])[2], "ports") # {}

\* the positions of the lines of a block whose attribute is one of attrs
LinesAt(block, attrs) == {k \in 1..Len(block.body) : block.body[k].attr \in attrs}

\* C16: every certificate gets exactly one block, the managed resource without
\* the self-managed placeholders when its type is MANAGED and the self-managed
\* resource without a managed block otherwise; a block generate_org_policies_tf
\* returns holds at most one of boolean_policy and list_policy
C16_OneShapePerRecord ==
    /\ gen_last = "generate_ssl_certificates_tf" =>
         LET certs == resources["ssl_certificates"]
         IN  /\ ~gen_text.raised
             /\ Len(gen_text.text) = Len(certs)
             /\ \A i \in 1..Len(certs) :
                  LET block == gen_text.text[i]
                      is_managed == "type" \in DOMAIN certs[i] /\ certs[i].type = <<"MANAGED">>
                  IN  /\ block.label = sanitize_name(certs[i].name)
                      /\ is_managed =>
                           /\ block.rtype = "google_compute_managed_ssl_certificate"
                           /\ LinesAt(block, {"#"}) = {}
                      /\ ~is_managed =>
                           /\ block.rtype = "google_compute_ssl_certificate"
                           /\ LinesAt(block, {"managed"}) = {}
                           /\ Cardinality(LinesAt(block, {"#"})) = 3
    /\ gen_last = "generate_org_policies_tf" =>
         \A i \in 1..Len(gen_text.text) :
            Cardinality(LinesAt(gen_text.text[i], {"boolean_policy", "list_policy"})) <= 1

\* a policy that carries both a booleanPolicy and a listPolicy was written with the
\* boolean_policy block alone
C16_Witness ==
    /\ gen_last = "generate_org_policies_tf"
    /\ \E i \in 1..Len(org_resources["org_policies_detailed"]) :
         LET policy == org_resources["org_policies_detailed"][i]
         IN  /\ {"booleanPolicy", "listPolicy"} \subseteq DOMAIN policy
             /\ policy.constraint # <<>>
    /\ \E i \in 1..Len(gen_text.text) :
         /\ gen_text.text[i].label = <<"both">>
         /\ Cardinality(LinesAt(gen_text.text[i], {"boolean_policy"})) = 1
         /\ LinesAt(gen_text.text[i], {"list_policy"}) = {}

\* the attributes generate_network_tf and generate_firewall_tf write behind an `if`,
\* with the key each is read from and the kind of value the key holds
NetworkOptional ==
    { <<"description", "description", "str">>, <<"mtu", "mtu", "num">>,
      <<"deleteDefaultRoutesOnCreate", "delete_default_routes_on_create", "flag">>,
      <<"enableUlaInternalIpv6", "enable_ula_internal_ipv6", "flag">>,
      <<"internalIpv6Range", "internal_ipv6_range", "str">> }

SubnetOptional ==
    { <<"description", "description", "str">>, <<"purpose", "purpose", "str">>,
      <<"role", "role", "str">>,
      <<"privateIpGoogleAccess", "private_ip_google_access", "flag">>,
      <<"privateIpv6GoogleAccess", "private_ipv6_google_access", "str">>,
      <<"stackType", "stack_type", "str">>,
      <<"ipv6AccessType", "ipv6_access_type", "str">>,
      <<"ipv6CidrRange", "ipv6_cidr_range", "str">>,
      <<"secondaryIpRanges", "secondary_ip_range", "list">> }

FirewallOptional ==
    { <<"description", "description", "str">>, <<"direction", "direction", "str">>,
      <<"priority", "priority", "num">>, <<"disabled", "disabled", "flag">>,
      <<"sourceRanges", "source_ranges", "list">>, <<"sourceTags", "source_tags", "list">>,
      <<"sourceServiceAccounts", "source_service_accounts", "list">>,
      <<"destinationRanges", "destination_ranges", "list">>,
      <<"targetTags", "target_tags", "list">>,
      <<"targetServiceAccounts", "target_service_accounts", "list">>,
      <<"allowed", "allow", "list">>, <<"denied", "deny", "list">> }

\* the record has no value under the key of o, or has false or an empty list there
Unset(rec, o) ==
    \/ o[1] \notin DOMAIN rec
    \/ o[3] = "flag" /\ rec[o[1]] = FALSE
    \/ o[3] \in {"str", "list"} /\ rec[o[1]] = <<>>

\* the blocks of `unit` from position first on hold no line for an unset attribute
\* of the record they were written for
NoLineForUnset(unit, first, records, optional) ==
    \A i \in 1..Len(records) : \A o \in optional :
        Unset(records[i], o) => LinesOf(files[unit][first + i], o[2]) = {}

\* C17: in the written network, subnet and firewall blocks, an optional attribute
\* whose key is absent from the record, or holds false or an empty list, has no line
C17_UnsetOptionalHasNoLine ==
    Saved =>
      /\ "networks.tf" \in DOMAIN files =>
           /\ NoLineForUnset("networks.tf", 0, Get(resources, "networks", <<>>), NetworkOptional)
           /\ NoLineForUnset("networks.tf", Len(Get(resources, "networks", <<>>)),
                             Get(resources, "subnets", <<>>), SubnetOptional)
      /\ "firewall.tf" \in DOMAIN files =>
           NoLineForUnset("firewall.tf", 0, Get(resources, "firewalls", <<>>), FirewallOptional)

\* a firewall with disabled false and an empty sourceRanges was written with its
\* target_tags line and neither a disabled nor a source_ranges line
C17_Witness ==
    /\ Saved
    /\ "firewall.tf" \in DOMAIN files
    /\ \E i \in 1..Len(Get(resources, "firewalls", <<>>)) :
         LET fw == resources["firewalls"][i]
             block == files["firewall.tf"][i]
         IN  /\ "disabled" \in DOMAIN fw /\ fw["disabled"] = FALSE
             /\ "sourceRanges" \in DOMAIN fw /\ fw["sourceRanges"] = <<>>
             /\ LinesOf(block, "target_tags") # {}
             /\ LinesOf(block, "disabled") = {}
             /\ LinesOf(block, "source_ranges") = {}

Least(a, b) == IF a < b THEN a ELSE b

\* the characters lo..hi of text read from nesting depth zero: the depth they end
\* at (net), the lowest depth they pass through (low) and the depths at which a
\* `resource` starts (res)
RECURSIVE Scan(_, _, _)
Scan(text, lo, hi) ==
    IF lo > hi THEN [net |-> 0, low |-> 0, res |-> {}]
    ELSE IF lo = hi
    THEN [net |-> IF text[lo] = "{" THEN 1 ELSE IF text[lo] = "}" THEN -1 ELSE 0,
          low |-> IF text[lo] = "}" THEN -1 ELSE 0,
          res |-> IF text[lo] = "resource" THEN {0} ELSE {}]
    ELSE LET mid == (lo + hi) \div 2
             a == Scan(text, lo, mid)
             b == Scan(text, mid + 1, hi)
         IN  [net |-> a.net + b.net,
              low |-> Least(a.low, a.net + b.low),
              res |-> a.res \cup {a.net + d : d \in b.res}]

\* the nesting depth of text never goes below zero, is zero where a resource block
\* starts, and is zero at the end
BracesBalanced(text) ==
    LET scan == Scan(text, 1, Len(text))
    IN  scan.low >= 0 /\ scan.res \subseteq {0} /\ scan.net = 0

\* the generate_* methods modelled character by character
TextGenerators ==
    {"generate_dataproc_tf", "generate_reservations_tf", "generate_cloud_armor_tf"}

\* C19: in the text generate_dataproc_tf, generate_reservations_tf and
\* generate_cloud_armor_tf return for an inventory without brace characters, the
\* nesting depth is never negative and is zero after every resource block
C19_BlocksAreClosed ==
    gen_last \in TextGenerators =>
        /\ ~gen_text.raised
        /\ BracesBalanced(gen_text.text)

\* generate_reservations_tf has returned the text of two reservations, the first
\* with two guest_accelerators blocks inside instance_properties inside
\* specific_reservation
C19_Witness ==
    /\ gen_last = "generate_reservations_tf"
    /\ Len(Get(resources, "reservations", <<>>)) = 2
    /\ LET first == resources["reservations"][1]
       IN  /\ "specificReservation" \in DOMAIN first
           /\ "instanceProperties" \in DOMAIN first.specificReservation
           /\ Len(first.specificReservation.instanceProperties.guestAccelerators) = 2
    /\ Cardinality({i \in 1..Len(gen_text.text) : gen_text.text[i] = "{"}) >= 6

\* C20: after a run that collected compute instances, for which the script has no
\* generate_* method, save_terraform_files has printed a warning about them
C20_SkippedKindIsReported ==
    (Saved /\ Get(resources, "instances", <<>>) # <<>>) =>
        \E line \in printed : line.mark = WARNING_MARK /\ line.about = "instances"

\* C21: the google_compute_router block of a router that has a bgp attribute
\* holds a nested bgp block with an asn line
C21_RouterBlockHasBgp ==
    (gen_last = "generate_routers_tf" /\ ~gen_text.raised) =>
        \A i \in 1..Len(Get(resources, "routers", <<>>)) :
            "bgp" \in DOMAIN resources["routers"][i] =>
                \E k \in LinesAt(gen_text.text[i], {"bgp"}) :
                    \E l \in 1..Len(gen_text.text[i].body[k].body) :
                        gen_text.text[i].body[k].body[l].attr = "asn"

\* C22: when the project IAM-policy query failed and every other command returned
\* nothing, save_terraform_files still returns normally and writes the README
C22_FailedQueryDoesNotAbort ==
    (/\ pc \in {"done", "raised"}
     /\ runs >= 1
     /\ "iam_policy" \in DOMAIN resources
     /\ resources["iam_policy"] = List(<<>>)
     /\ Used(resources) = 0) =>
        /\ ~raised
        /\ "README.md" \in DOMAIN files

\* the extraction methods extract_all calls under one test or another
Callable == {CallsUpTo(Len(extract_all_plan))[c] : c \in 1..Len(CallsUpTo(Len(extract_all_plan)))}

\* C23: once the enabled APIs are detected, extract_all eventually has called every
\* extraction method that api_to_methods lists for an enabled API
C23_ListedMethodsEventuallyRun ==
    (xa_pc >= 1) ~>
        (\A api \in xa_enabled_apis \cap DOMAIN api_to_methods :
            \A m \in api_to_methods[api] \cap Callable :
                \E c \in 1..Len(xa_calls) : xa_calls[c] = m)

\* the steps of extract_all that read a list another step stores, each with that step
DerivedSteps ==
    { <<"extract_peering", "extract_networks">>,
      <<"extract_cloud_nat", "extract_routers">>,
      <<"extract_service_account_keys", "extract_service_accounts">>,
      <<"extract_workload_identity", "extract_service_accounts">>,
      <<"extract_gke_node_pools", "extract_gke">>,
      <<"extract_bigquery_routines", "extract_bigquery">> }

\* main() has gone on to save_terraform_files
MainSaving == xa_pc = Len(extract_all_plan) + 2

\* C24: a derived step is called only after the step that stores the list it reads,
\* and when main() calls save_terraform_files every step whose test passes has
\* been called
C24_DerivedAfterSource ==
    /\ \A pair \in DerivedSteps : \A j \in 1..Len(xa_calls) :
          xa_calls[j] = pair[1] => \E i \in 1..(j - 1) : xa_calls[i] = pair[2]
    /\ MainSaving =>
          \A k \in 1..Len(extract_all_plan) :
             should_extract(xa_enabled_apis, extract_all_plan[k].test) =>
                \A c \in 1..Len(extract_all_plan[k].calls) :
                   \E i \in 1..Len(xa_calls) : xa_calls[i] = extract_all_plan[k].calls[c]

\* with only the compute API enabled, main() is saving after extract_cloud_nat and
\* extract_peering were called, and extract_gke was not
C24_Witness ==
    /\ MainSaving
    /\ xa_enabled_apis = {"compute.googleapis.com"}
    /\ \E j \in 1..Len(xa_calls) : xa_calls[j] = "extract_cloud_nat"
    /\ \E j \in 1..Len(xa_calls) : xa_calls[j] = "extract_peering"
    /\ \A j \in 1..Len(xa_calls) : xa_calls[j] # "extract_gke"

\* the attributes that name a next hop
NextHopAttrs ==
    {"next_hop_gateway", "next_hop_ip", "next_hop_instance", "next_hop_vpn_tunnel",
     "next_hop_ilb"}

\* the positions of the routes whose name starts with 'default-route-'
DefaultRoutes ==
    {i \in 1..Len(Get(resources, "routes", <<>>)) :
        LET name == Get(resources, "routes", <<>>)[i].name
        IN  Len(name) >= 4 /\ SubSeq(name, 1, 4) = <<"default", "-", "route", "-">>}

\* C25: generate_routes_tf returns one google_compute_route block for every route
\* whose name does not start with 'default-route-', in their order, none for a
\* route whose name does, and no block has more than one next_hop_* line
C25_RoutesWrittenOnce ==
    (gen_last = "generate_routes_tf" /\ ~gen_text.raised) =>
        LET routes == Get(resources, "routes", <<>>)
            kept == {i \in 1..Len(routes) : i \notin DefaultRoutes}
        IN  /\ Len(gen_text.text) = Cardinality(kept)
            /\ \A i \in kept :
                 LET block == gen_text.text[Cardinality({j \in kept : j <= i})]
                 IN  /\ block.rtype = "google_compute_route"
                     /\ \E l \in LinesOf(block, "name") :
                           l.text = <<QUOTE>> \o routes[i].name \o <<QUOTE>>
            /\ \A b \in 1..Len(gen_text.text) :
                 Cardinality(LinesAt(gen_text.text[b], NextHopAttrs)) <= 1

\* a default route followed by a route with two next hops: one block, with the
\* next_hop_ip line alone
C25_Witness ==
    /\ gen_last = "generate_routes_tf"
    /\ Len(Get(resources, "routes", <<>>)) = 2
    /\ DefaultRoutes = {1}
    /\ {"nextHopIp", "nextHopVpnTunnel"} \subseteq DOMAIN Get(resources, "routes", <<>>)[2]
    /\ Len(gen_text.text) = 1
    /\ LinesAt(gen_text.text[1], NextHopAttrs) # {}
    /\ LinesOf(gen_text.text[1], "next_hop_vpn_tunnel") = {}

\* the inventory with another value in the place of every non-empty sharedSecret
Resecret(res, secret) ==
    LET tunnels == Get(res, "vpn_tunnels", <<>>)
    IN  Put(res, "vpn_tunnels",
            [i \in 1..Len(tunnels) |->
                IF Get(tunnels[i], "sharedSecret", <<>>) # <<>>
                THEN Put(tunnels[i], "sharedSecret", secret)
                ELSE tunnels[i]])

\* the texts of all lines of a block
LineTexts(block) == {block.body[k].text : k \in 1..Len(block.body)}

\* C26: the text generate_vpn_tf returns is the same whatever the non-empty
\* sharedSecret values of the tunnels are; a tunnel that has one gets the line
\* shared_secret = "<REDACTED>", and no line holds the secret
C26_SharedSecretNotWritten ==
    (gen_last = "generate_vpn_tf" /\ ~gen_text.raised) =>
        LET gateways == Get(resources, "vpn_gateways", <<>>)
            tunnels == Get(resources, "vpn_tunnels", <<>>)
        IN  /\ \A secret \in {<<"other">>, <<"s3cr3t">>, <<"p", "@", "ss">>} :
                  generate_vpn_tf(Resecret(resources, secret)) = gen_text
            /\ \A i \in 1..Len(tunnels) :
                  Get(tunnels[i], "sharedSecret", <<>>) # <<>> =>
                     LET block == gen_text.text[Len(gateways) + i]
                     IN  /\ \E l \in LinesOf(block, "shared_secret") :
                               l.text = <<QUOTE, "<REDACTED>", QUOTE>>
                         /\ \A text \in LineTexts(block) :
                               ~Contains(text, tunnels[i].sharedSecret)

\* two tunnels with different secrets were written after a gateway, each with the
\* placeholder
C26_Witness ==
    /\ gen_last = "generate_vpn_tf"
    /\ Len(Get(resources, "vpn_gateways", <<>>)) = 1
    /\ Len(Get(resources, "vpn_tunnels", <<>>)) = 2
    /\ Get(resources["vpn_tunnels"][1], "sharedSecret", <<>>) = <<"s3cr3t">>
    /\ Get(resources["vpn_tunnels"][2], "sharedSecret", <<>>) = <<"hunter2">>
    /\ \A b \in 2..3 : LinesOf(gen_text.text[b], "shared_secret") # {}

\* C27: the block of a firewall whose record has a priority holds a priority line
\* with that number, 0 included
C27_PriorityIsWritten ==
    (gen_last = "generate_firewall_tf" /\ ~gen_text.raised) =>
        \A i \in 1..Len(Get(resources, "firewalls", <<>>)) :
            LET fw == resources["firewalls"][i]
            IN  "priority" \in DOMAIN fw =>
                   \E l \in LinesOf(gen_text.text[i], "priority") :
                       l.text = <<ToString(fw["priority"])>>

\* the blocks a generate_* method would write for the inventory, none when it raises
Emitted(result) == IF result.raised THEN {} ELSE {result.text[i] : i \in 1..Len(result.text)}

\* every line of `block` that sets attr is a reference to one of the blocks `targets`
NamesOneOf(block, attr, targets) ==
    /\ LinesOf(block, attr) # {}
    /\ \A l \in LinesOf(block, attr) :
          /\ l.form = "ref"
          /\ \E target \in targets : l.ref.rtype = target.rtype /\ l.ref.label = target.label

\* C28: every Cloud NAT record that extract_cloud_nat stored has a router_name that is
\* not empty and is the name of a listed router, so the router reference of each block
\* of generate_cloud_nat_tf names a block that generate_routers_tf writes; and the
\* network reference of each block of generate_peering_tf names a block that
\* generate_network_tf writes
C28_DerivedRecordsNameTheirSource ==
    LET routers == Get(resources, "routers", <<>>)
        cloud_nats == Get(resources, "cloud_nats", <<>>)
    IN  /\ \A n \in 1..Len(cloud_nats) :
              /\ "router_name" \in DOMAIN cloud_nats[n]
              /\ cloud_nats[n].router_name # <<>>
              /\ \E r \in 1..Len(routers) :
                    Get(routers[r], "name", <<>>) = cloud_nats[n].router_name
        /\ (gen_last = "generate_cloud_nat_tf" /\ ~gen_text.raised) =>
              \A b \in 1..Len(gen_text.text) :
                  NamesOneOf(gen_text.text[b], "router",
                             Emitted(generate_routers_tf(resources)))
        /\ (gen_last = "generate_peering_tf" /\ ~gen_text.raised
            /\ ~generate_network_tf(resources).raised) =>
              \A b \in 1..Len(gen_text.text) :
                  NamesOneOf(gen_text.text[b], "network",
                             Emitted(generate_network_tf(resources)))

\* the Cloud NATs of two different routers were stored and generate_cloud_nat_tf wrote
\* their blocks
C28_Witness ==
    /\ gen_last = "generate_cloud_nat_tf"
    /\ ~gen_text.raised
    /\ Len(gen_text.text) = 2
    /\ Len(Get(resources, "routers", <<>>)) = 2
    /\ \E l1 \in LinesOf(gen_text.text[1], "router") :
          \E l2 \in LinesOf(gen_text.text[2], "router") : l1.ref.label # l2.ref.label

\* the bindings a policy holds, none when it is not a mapping
BindingsOf(policy) ==
    IF policy.type = "dict" THEN Get(policy.fields, "bindings", <<>>) ELSE <<>>

\* the positions of the bindings that have a role and a member
WithRoleAndMembers(bindings) ==
    {i \in 1..Len(bindings) :
        Get(bindings[i], "role", <<>>) # <<>> /\ Get(bindings[i], "members", <<>>) # <<>>}

\* `blocks` holds one block for each binding that has a role and a member, whose
\* resource name ends in "_" and the position of the binding counted from 0, and
\* no other block; no two blocks have the same resource name
OneBlockPerBinding(blocks, bindings) ==
    /\ Len(blocks) = Cardinality(WithRoleAndMembers(bindings))
    /\ \A i \in WithRoleAndMembers(bindings) :
          \E k \in 1..Len(blocks) :
              LET label == blocks[k].label
              IN  /\ Len(label) >= 3
                  /\ SubSeq(label, Len(label) - 1, Len(label)) = <<"_", ToString(i - 1)>>
                  /\ \E l \in LinesOf(blocks[k], "role") :
                        l.text = <<QUOTE>> \o bindings[i].role \o <<QUOTE>>
    /\ \A j \in 1..Len(blocks) : \A k \in 1..Len(blocks) :
          j # k => blocks[j].label # blocks[k].label

\* C29: the IAM binding blocks of generate_iam_policies_tf and of generate_org_iam_tf
\* have pairwise distinct resource names, each the sanitized role followed by "_" and
\* the index of the binding, also when several bindings have the same role; a binding
\* with an empty role or without members has no block
C29_BindingNamesAreDistinct ==
    /\ (gen_last = "generate_iam_policies_tf" /\ ~gen_text.raised) =>
          OneBlockPerBinding(gen_text.text, BindingsOf(Get(resources, "iam_policy", NoDict)))
    /\ gen_last = "generate_org_iam_tf" =>
          /\ ~gen_text.raised
          /\ OneBlockPerBinding(gen_text.text,
                                BindingsOf(Get(org_resources, "org_iam_policy", NoDict)))

\* generate_org_iam_tf wrote the blocks of two bindings of the same role
C29_Witness ==
    /\ gen_last = "generate_org_iam_tf"
    /\ Len(gen_text.text) = 2
    /\ LET bindings == BindingsOf(Get(org_resources, "org_iam_policy", NoDict))
       IN  Len(bindings) = 2 /\ bindings[1].role = bindings[2].role

=============================================================================
